---- MODULE Spec2Model ----
(***************************************************************************)
(* A model of sync-rs: Mutex / StaticMutex with RAII guards and poisoning  *)
(* (src/src/mutex.rs), Condvar / StaticCondvar with its runtime binding    *)
(* check (src/src/condvar.rs), RWLock (src/src/rwlock.rs), Barrier          *)
(* (src/src/barrier.rs), the poison helper (src/src/poison.rs) and the raw *)
(* bindings underneath them (src/src/sys/*.rs): POSIX, and the lazily      *)
(* initialized raw mutex of Windows.                                       *)
(*                                                                         *)
(* Threads are OS threads; every action is one atomic step of one thread.  *)
(* A blocking call is modelled by an action that is enabled only when the  *)
(* OS would let the call proceed.                                          *)
(***************************************************************************)
EXTENDS Integers, FiniteSets, Sequences, TLC

\* ------------------------------------------------------------------ bounds
NumThreads == 2
\* Stack slots of one thread in which a guard object can be placed.
NumSlots == 2
\* Iterations of the counter workload per thread (J in test::lots_and_lots).
Iters == 2
\* Read guards one thread may hold at a time.
MaxReads == 2
\* Threads that use the rwlock.
NumRWThreads == 3
\* Threads that wait on the raw condvar of `sys` directly; one more thread
\* notifies them.
NumWaiters == 2
\* Threads that call Barrier::wait; barriers are built for 2..NumParties.
NumParties == 3
\* Calls of Barrier::wait one thread makes.
MaxCalls == 2
\* Iterations of the loop of tests::frob per thread (M there).
FrobIters == 2
\* Threads that use the raw mutex of Windows.
NumWinThreads == 2
\* lock / try_lock calls one thread makes on the raw mutex of Windows.
WinCalls == 2
\* destroy calls one thread makes on the raw mutex of Windows.
WinDestroys == 2
\* Threads that borrow the poison::Flag.
NumFlagThreads == 3

Threads == 1..NumThreads
\* Every thread there is: those of the mutex and condvar workloads, and those
\* of the workloads on the raw primitives.
Largest(a, b) == IF a > b THEN a ELSE b
AllThreads == 1..Largest(NumThreads, Largest(NumWaiters + 1, NumParties))
Slots == 1..NumSlots
RWThreads == 1..NumRWThreads
WinThreads == 1..NumWinThreads
FlagThreads == 1..NumFlagThreads

\* ------------------------------------------------------------ the objects
\* M1 is a Mutex<T> (boxed raw mutex, poison flag, data); M2 is a StaticMutex
\* (raw mutex only).
Mutexes == {"M1", "M2"}
NoMutex == "none"

Kind(m) == IF m = "M1" THEN "Mutex" ELSE "StaticMutex"

PoisonMutexes == {m \in Mutexes : Kind(m) = "Mutex"}

\* The address of a guard object: slot s of thread t's stack.  Addresses are
\* non-zero and the stacks of different threads are disjoint.
Addr(t, s) == (t - 1) * NumSlots + s

NoGuard == [m |-> NoMutex, addr |-> 0]

\* No try_lock, try_read or try_write call has been made yet.
NoTry == [t |-> 0, call |-> "none", m |-> NoMutex, res |-> "none"]

VARIABLES
    owner,      \* raw mutex: 0 (unlocked) or the thread that has it locked
    failed,     \* Mutex.failed: the poison flag
    guard,      \* the live guard of each thread: its mutex and its address
    pc,         \* where each thread is
    lk,         \* the mutex of the lock()/try_lock() call a thread is inside
    panic,      \* why the thread is unwinding ("none": it is not failing)
    cvMutex,    \* StaticCondvar.mutex: 0 or the bound identity
    wcall,      \* the condvar call a thread is inside: none, wait, wait_timeout
    ret,        \* what wait_timeout returned to the thread under its live guard
    cvUsed,     \* mutexes whose guards were passed to wait / wait_timeout
    cvDone,     \* mutexes with whose guard a wait / wait_timeout has returned
    cnt,        \* static mut CNT of test::lots_and_lots
    tmp,        \* the value of CNT a thread has read in CNT += 1
    cs,         \* where a thread is in CNT += 1
    iters,      \* completed iterations of inc() per thread
    rwShared,   \* raw rwlock: number of shared holders
    rwExcl,     \* raw rwlock: held exclusively
    rg,         \* live ReadGuards per thread
    wg,         \* live WriteGuards per thread
    rwCall,     \* the blocking rwlock call a thread is inside
    test,       \* which test of condvar.rs is run ("none": no test)
    ip,         \* the statement of its test a thread is at
    wake,       \* what ended the last blocking of a thread in the condvar
    num_threads,    \* Barrier.num_threads
    count,          \* BarrierState.count
    generation_id,  \* BarrierState.generation_id
    local_gen,      \* local_gen of each thread's call of Barrier::wait
    bpc,            \* where each thread is in Barrier::wait
    calls,          \* calls of Barrier::wait each thread has made
    rets,           \* calls of Barrier::wait that have returned to each thread
    tried,          \* the last try_* call: its thread, its lock, its result
    failedIn,       \* mutexes a guard of which was live when its owner failed
    rwPanic,        \* why a thread of the rwlock is unwinding ("none": it is not)
    rwFailedIn,     \* kinds of rwlock guard that were live when their owner failed
    rwIters,        \* completed iterations of the loop of tests::frob per thread
    frobKinds,      \* the kinds of guard the completed iterations have taken
    seen,           \* verify: the value of StaticCondvar.mutex a thread has loaded
    inner,          \* imp::Mutex.inner (Windows): 0 or the installed handle
    lock,           \* the local `lock` of a thread's get() or destroy()
    handle,         \* the handle get() has returned to a thread's call
    live,           \* the critical sections allocated and not freed
    freed,          \* how many times each handle was passed to free_lock
    csOwner,        \* of each critical section: 0 or the thread inside it
    wpc,            \* where each thread is in a call on the raw mutex
    wop,            \* the call on the raw mutex a thread is making
    wcalls,         \* lock / try_lock calls each thread has made
    destroys,       \* destroy calls each thread has made
    dur,            \* wait_timeout (POSIX): the Duration it was given
    tv,             \* wait_timeout (POSIX): the timeval gettimeofday has filled
    timeout,        \* wait_timeout (POSIX): the timespec of the deadline
    dpc,            \* where the call of wait_timeout (POSIX) is
    flagFailed,     \* poison::Flag.failed
    holder,         \* the thread that has borrowed the Flag (0: nobody)
    gFailing,       \* poison::Guard.failing of the live Guard
    ppc,            \* where each thread is with the Guard
    ppanic          \* why a thread that borrows the Flag is unwinding

mutexVars == <<owner, failed, guard, pc, lk, panic, ret>>
cvVars == <<cvMutex, wcall, cvUsed, cvDone>>
cntVars == <<cnt, tmp, cs, iters>>
rwVars == <<rwShared, rwExcl, rg, wg, rwCall>>
testVars == <<test, ip, wake>>
barVars == <<num_threads, count, generation_id, local_gen, bpc, calls, rets>>
lockVars == <<tried, failedIn>>
rwFailVars == <<rwPanic, rwFailedIn>>
frobVars == <<rwIters, frobKinds>>
winVars == <<inner, lock, handle, live, freed, csOwner, wpc, wop, wcalls, destroys>>
deadlineVars == <<dur, tv, timeout, dpc>>
flagVars == <<flagFailed, holder, gFailing, ppc, ppanic>>
moreVars == <<lockVars, rwFailVars, frobVars, seen, winVars, deadlineVars,
              flagVars>>
restVars == <<testVars, barVars, moreVars>>
vars == <<mutexVars, cvVars, cntVars, rwVars, restVars>>

\* task::failing(): the thread is unwinding.
failing(t) == panic[t] # "none"

\* The critical sections init_lock can allocate, named in the order of their
\* allocation; 0 is the null handle.
Handles == 1..NumWinThreads
HandlesOrNull == 0..NumWinThreads

\* The raw mutex of Windows with no thread in any call, no critical section
\* entered and nothing freed; `inner` is set by the initial condition.
InitWinObjects ==
    /\ lock = [t \in WinThreads |-> 0]
    /\ handle = [t \in WinThreads |-> 0]
    /\ freed = [h \in HandlesOrNull |-> 0]
    /\ csOwner = [h \in HandlesOrNull |-> 0]
    /\ wpc = [t \in WinThreads |-> "idle"]
    /\ wop = [t \in WinThreads |-> "none"]
    /\ wcalls = [t \in WinThreads |-> 0]
    /\ destroys = [t \in WinThreads |-> 0]

\* The primitives as their constructors and *_INIT constants leave them, and
\* no thread inside any call; the raw mutex of Windows aside.
InitOthers ==
    /\ owner = [m \in Mutexes |-> 0]
    /\ failed = [m \in PoisonMutexes |-> FALSE]
    /\ guard = [t \in AllThreads |-> NoGuard]
    /\ lk = [t \in AllThreads |-> NoMutex]
    /\ panic = [t \in AllThreads |-> "none"]
    /\ cvMutex = 0
    /\ wcall = [t \in AllThreads |-> "none"]
    /\ ret = [t \in AllThreads |-> "none"]
    /\ cvUsed = {}
    /\ cvDone = {}
    /\ cnt = 0
    /\ tmp = [t \in Threads |-> 0]
    /\ cs = [t \in Threads |-> "none"]
    /\ iters = [t \in Threads |-> 0]
    /\ rwShared = 0
    /\ rwExcl = FALSE
    /\ rg = [t \in RWThreads |-> 0]
    /\ wg = [t \in RWThreads |-> 0]
    /\ rwCall = [t \in RWThreads |-> "none"]
    /\ ip = [t \in AllThreads |-> 1]
    /\ wake = [t \in AllThreads |-> "none"]
    /\ count = 0
    /\ generation_id = 0
    /\ local_gen = [t \in AllThreads |-> 0]
    /\ bpc = [t \in AllThreads |-> "out"]
    /\ calls = [t \in AllThreads |-> 0]
    /\ rets = [t \in AllThreads |-> 0]
    /\ tried = NoTry
    /\ failedIn = {}
    /\ rwPanic = [t \in RWThreads |-> "none"]
    /\ rwFailedIn = {}
    /\ rwIters = [t \in RWThreads |-> 0]
    /\ frobKinds = {}
    /\ seen = [t \in AllThreads |-> 0]
    /\ InitWinObjects
    /\ tv = [tv_sec |-> 0, tv_usec |-> 0]
    /\ timeout = [tv_sec |-> 0, tv_nsec |-> 0]
    /\ dpc = "called"
    /\ flagFailed = FALSE
    /\ holder = 0
    /\ gFailing = FALSE
    /\ ppc = [t \in FlagThreads |-> "out"]
    /\ ppanic = [t \in FlagThreads |-> "none"]

\* All primitives; the raw mutex of Windows is a MUTEX_INIT.
InitObjects ==
    /\ InitOthers
    /\ dur = [secs |-> 0, nanos |-> 0]
    /\ inner = 0
    /\ live = {}

Init ==
    /\ InitObjects
    /\ pc = [t \in AllThreads |-> "idle"]
    /\ test = "none"
    /\ num_threads = NumParties

\* ------------------------------------------------------- raw mutex (sys)
\* Faulty variant: the lock is handed out without waiting for its holder.
sys_mutex_lock_nowait(t, m) == owner' = [owner EXCEPT ![m] = t]

\* pthread_mutex_lock returns once the mutex is unlocked, locking it.
sys_mutex_lock(t, m) ==
    /\ owner[m] = 0
    /\ owner' = [owner EXCEPT ![m] = t]

\* Faulty variant: try_lock reports success whatever the state of the mutex.
sys_mutex_try_lock_always(m) == TRUE

\* pthread_mutex_trylock(..) == 0
sys_mutex_try_lock(m) == owner[m] = 0

sys_mutex_unlock(m) == owner' = [owner EXCEPT ![m] = 0]

\* ------------------------------------------------- Mutex / StaticMutex
\* lock(): self.lock.lock(), then the guard constructor.
Mutex_lock(t, m) ==
    /\ pc[t] = "idle"
    /\ sys_mutex_lock(t, m)
    /\ pc' = [pc EXCEPT ![t] = "acquired"]
    /\ lk' = [lk EXCEPT ![t] = m]
    /\ UNCHANGED <<failed, guard, panic, ret>>

\* Faulty variant: try_lock waits for the raw mutex as lock does.
Mutex_try_lock_waiting(t, m) == Mutex_lock(t, m)

\* try_lock(): None when the raw try_lock fails, else the guard constructor.
Mutex_try_lock(t, m) ==
    /\ pc[t] = "idle"
    /\ IF sys_mutex_try_lock(m)
       THEN /\ owner' = [owner EXCEPT ![m] = t]
            /\ pc' = [pc EXCEPT ![t] = "acquired"]
            /\ lk' = [lk EXCEPT ![t] = m]
       ELSE UNCHANGED <<owner, pc, lk>>
    /\ UNCHANGED <<failed, guard, panic, ret>>

\* Faulty variant: a poisoned mutex makes the constructor panic only when the
\* caller itself is already failing.
MutexGuard_new_lenient(t, s) ==
    /\ pc[t] = "acquired"
    /\ guard' = [guard EXCEPT ![t] = [m |-> lk[t], addr |-> Addr(t, s)]]
    /\ lk' = [lk EXCEPT ![t] = NoMutex]
    /\ IF Kind(lk[t]) = "Mutex" /\ failed[lk[t]] /\ failing(t)
       THEN /\ panic' = [panic EXCEPT ![t] = "poisoned"]
            /\ pc' = [pc EXCEPT ![t] = "unwinding"]
       ELSE /\ pc' = [pc EXCEPT ![t] = "holding"]
            /\ UNCHANGED panic
    /\ UNCHANGED <<owner, failed, ret>>

\* Faulty variant: the guard constructor does not look at the poison flag.
MutexGuard_new_unchecked(t, s) ==
    /\ pc[t] = "acquired"
    /\ guard' = [guard EXCEPT ![t] = [m |-> lk[t], addr |-> Addr(t, s)]]
    /\ lk' = [lk EXCEPT ![t] = NoMutex]
    /\ pc' = [pc EXCEPT ![t] = "holding"]
    /\ UNCHANGED <<owner, failed, panic, ret>>

\* Faulty variant: the poison flag is checked before the guard is built, so
\* the panic unwinds with no guard to drop.
MutexGuard_new_check_first(t, s) ==
    /\ pc[t] = "acquired"
    /\ lk' = [lk EXCEPT ![t] = NoMutex]
    /\ IF Kind(lk[t]) = "Mutex" /\ failed[lk[t]]
       THEN /\ panic' = [panic EXCEPT ![t] = "poisoned"]
            /\ pc' = [pc EXCEPT ![t] = "dead"]
            /\ UNCHANGED guard
       ELSE /\ guard' = [guard EXCEPT ![t] = [m |-> lk[t], addr |-> Addr(t, s)]]
            /\ pc' = [pc EXCEPT ![t] = "holding"]
            /\ UNCHANGED panic
    /\ UNCHANGED <<owner, failed, ret>>

\* MutexGuard::new: builds the guard, then panics if the mutex is poisoned
\* (the guard is a live local, so unwinding drops it).
\* StaticMutexGuard::new: builds the guard.
MutexGuard_new(t, s) ==
    /\ pc[t] = "acquired"
    /\ guard' = [guard EXCEPT ![t] = [m |-> lk[t], addr |-> Addr(t, s)]]
    /\ lk' = [lk EXCEPT ![t] = NoMutex]
    /\ IF Kind(lk[t]) = "Mutex" /\ failed[lk[t]]
       THEN /\ panic' = [panic EXCEPT ![t] = "poisoned"]
            /\ pc' = [pc EXCEPT ![t] = "unwinding"]
       ELSE /\ pc' = [pc EXCEPT ![t] = "holding"]
            /\ UNCHANGED panic
    /\ UNCHANGED <<owner, failed, ret>>

\* spawn(proc() { .. }): a new task starts where a finished one has been.
Spawn(t) ==
    /\ pc[t] = "dead"
    /\ pc' = [pc EXCEPT ![t] = "idle"]
    /\ panic' = [panic EXCEPT ![t] = "none"]
    /\ UNCHANGED <<owner, failed, guard, lk, ret>>

\* User code panics inside the critical section.
Panic(t) ==
    /\ pc[t] = "holding"
    /\ panic' = [panic EXCEPT ![t] = "user"]
    /\ pc' = [pc EXCEPT ![t] = "unwinding"]
    /\ UNCHANGED <<owner, failed, guard, lk, ret>>

\* Faulty variant: the destructor unlocks before it looks at the flag.
MutexGuard_drop_unlock_first(t) ==
    /\ pc[t] \in {"holding", "unwinding"}
    /\ Kind(guard[t].m) = "Mutex"
    /\ sys_mutex_unlock(guard[t].m)
    /\ pc' = [pc EXCEPT ![t] = "unlocking"]
    /\ UNCHANGED <<failed, guard, lk, panic, ret>>

\* Faulty variant: the destructor sets the flag whether or not the thread is
\* failing.
MutexGuard_drop_flag_always(t) ==
    /\ pc[t] \in {"holding", "unwinding"}
    /\ Kind(guard[t].m) = "Mutex"
    /\ failed' = [failed EXCEPT ![guard[t].m] = TRUE]
    /\ pc' = [pc EXCEPT ![t] = "unlocking"]
    /\ UNCHANGED <<owner, guard, lk, panic, ret>>

\* Faulty variant: only a panic of the user's code in the critical section
\* sets the flag, a panic raised by the library itself does not.
MutexGuard_drop_flag_user_only(t) ==
    /\ pc[t] \in {"holding", "unwinding"}
    /\ Kind(guard[t].m) = "Mutex"
    /\ IF ~failed[guard[t].m] /\ panic[t] = "user"
       THEN failed' = [failed EXCEPT ![guard[t].m] = TRUE]
       ELSE UNCHANGED failed
    /\ pc' = [pc EXCEPT ![t] = "unlocking"]
    /\ UNCHANGED <<owner, guard, lk, panic, ret>>

\* Drop for MutexGuard, first statement: set the poison flag when failing.
MutexGuard_drop_flag(t) ==
    /\ pc[t] \in {"holding", "unwinding"}
    /\ Kind(guard[t].m) = "Mutex"
    /\ IF ~failed[guard[t].m] /\ failing(t)
       THEN failed' = [failed EXCEPT ![guard[t].m] = TRUE]
       ELSE UNCHANGED failed
    /\ pc' = [pc EXCEPT ![t] = "unlocking"]
    /\ UNCHANGED <<owner, guard, lk, panic, ret>>

\* Drop for MutexGuard, second statement: unlock the raw mutex.
MutexGuard_drop_unlock(t) ==
    /\ pc[t] = "unlocking"
    /\ sys_mutex_unlock(guard[t].m)
    /\ guard' = [guard EXCEPT ![t] = NoGuard]
    /\ pc' = [pc EXCEPT ![t] = IF failing(t) THEN "dead" ELSE "idle"]
    /\ ret' = [ret EXCEPT ![t] = "none"]
    /\ UNCHANGED <<failed, lk, panic>>

\* Faulty variant: a guard unwound by a failure goes without unlocking.
StaticMutexGuard_drop_leaking(t) ==
    /\ pc[t] \in {"holding", "unwinding"}
    /\ Kind(guard[t].m) = "StaticMutex"
    /\ IF failing(t) THEN UNCHANGED owner ELSE sys_mutex_unlock(guard[t].m)
    /\ guard' = [guard EXCEPT ![t] = NoGuard]
    /\ pc' = [pc EXCEPT ![t] = IF failing(t) THEN "dead" ELSE "idle"]
    /\ ret' = [ret EXCEPT ![t] = "none"]
    /\ UNCHANGED <<failed, lk, panic>>

\* Drop for StaticMutexGuard: unlock the raw mutex.
StaticMutexGuard_drop(t) ==
    /\ pc[t] \in {"holding", "unwinding"}
    /\ Kind(guard[t].m) = "StaticMutex"
    /\ sys_mutex_unlock(guard[t].m)
    /\ guard' = [guard EXCEPT ![t] = NoGuard]
    /\ pc' = [pc EXCEPT ![t] = IF failing(t) THEN "dead" ELSE "idle"]
    /\ ret' = [ret EXCEPT ![t] = "none"]
    /\ UNCHANGED <<failed, lk, panic>>

\* ------------------------------------------------------ raw condvar (sys)
\* Faulty variant: a thread that is about to block counts as blocked, so a
\* notification sent before it blocks is kept for it.
Waiters_and_arriving == {w \in AllThreads : pc[w] \in {"waiting", "verified"}}

\* The threads blocked in pthread_cond_wait / pthread_cond_timedwait.
Waiters == {w \in AllThreads : pc[w] = "waiting"}

\* Faulty variant: the mutex is unlocked in one step and the thread blocks in
\* a later one.
sys_condvar_wait_unlock_early(t) ==
    /\ pc[t] = "verified"
    /\ IF owner[guard[t].m] = t
       THEN sys_mutex_unlock(guard[t].m) /\ UNCHANGED pc
       ELSE pc' = [pc EXCEPT ![t] = "waiting"] /\ UNCHANGED owner
    /\ UNCHANGED <<failed, guard, lk, panic, ret>>
    /\ UNCHANGED cvVars

\* pthread_cond_wait / pthread_cond_timedwait, first half: atomically unlock
\* the mutex and block on the condition variable.
sys_condvar_wait(t) ==
    /\ pc[t] = "verified"
    /\ sys_mutex_unlock(guard[t].m)
    /\ pc' = [pc EXCEPT ![t] = "waiting"]
    /\ UNCHANGED <<failed, guard, lk, panic, ret>>
    /\ UNCHANGED cvVars

\* Faulty variant: the two results are exchanged.
wait_timeout_result_inverted(timedOut) == IF timedOut THEN "true" ELSE "false"

\* The value wait_timeout returns for the result r of pthread_cond_timedwait:
\* r != 0 (ETIMEDOUT) gives false, r == 0 gives true.
wait_timeout_result(timedOut) == IF timedOut THEN "false" ELSE "true"

\* A blocked thread is unblocked; it still has to lock the mutex again.
Unblock(w) == [pc EXCEPT ![w] = "woken"]

\* What the unblocked call will return.
UnblockRet(w, timedOut) ==
    IF wcall[w] = "wait_timeout"
    THEN [ret EXCEPT ![w] = wait_timeout_result(timedOut)]
    ELSE ret

\* Faulty variant: the signal unblocks every blocked thread.
sys_condvar_notify_one_unblocking_all(t) ==
    /\ pc[t] \in {"idle", "holding"}
    /\ pc' = [w \in AllThreads |-> IF w \in Waiters THEN "woken" ELSE pc[w]]
    /\ ret' = [w \in AllThreads |->
                 IF w \in Waiters /\ wcall[w] = "wait_timeout"
                 THEN wait_timeout_result(FALSE) ELSE ret[w]]
    /\ UNCHANGED <<owner, failed, guard, lk, panic, cvMutex, wcall, cvUsed, cvDone>>

\* pthread_cond_signal: unblocks one blocked thread, if there is one.
sys_condvar_notify_one(t) ==
    /\ pc[t] \in {"idle", "holding"}
    /\ IF Waiters = {}
       THEN UNCHANGED <<pc, ret>>
       ELSE \E w \in Waiters :
                /\ pc' = Unblock(w)
                /\ ret' = UnblockRet(w, FALSE)
    /\ UNCHANGED <<owner, failed, guard, lk, panic, cvMutex, wcall, cvUsed, cvDone>>

\* Faulty variant: the broadcast unblocks one blocked thread only.
sys_condvar_notify_all_unblocking_one(t) == sys_condvar_notify_one(t)

\* pthread_cond_broadcast: unblocks every blocked thread.
sys_condvar_notify_all(t) ==
    /\ pc[t] \in {"idle", "holding"}
    /\ pc' = [w \in AllThreads |-> IF w \in Waiters THEN "woken" ELSE pc[w]]
    /\ ret' = [w \in AllThreads |->
                 IF w \in Waiters /\ wcall[w] = "wait_timeout"
                 THEN wait_timeout_result(FALSE) ELSE ret[w]]
    /\ UNCHANGED <<owner, failed, guard, lk, panic, cvMutex, wcall, cvUsed, cvDone>>

\* A spurious wakeup: the wait returns 0 without any notification.
SpuriousWakeup(w) ==
    /\ pc[w] = "waiting"
    /\ pc' = Unblock(w)
    /\ ret' = UnblockRet(w, FALSE)
    /\ UNCHANGED <<owner, failed, guard, lk, panic, cvMutex, wcall, cvUsed, cvDone>>

\* The deadline of pthread_cond_timedwait passes: it returns ETIMEDOUT.
Timeout(w) ==
    /\ pc[w] = "waiting"
    /\ wcall[w] = "wait_timeout"
    /\ pc' = Unblock(w)
    /\ ret' = UnblockRet(w, TRUE)
    /\ UNCHANGED <<owner, failed, guard, lk, panic, cvMutex, wcall, cvUsed, cvDone>>

\* Faulty variant: the wait returns without locking the mutex again.
sys_condvar_wait_return_no_lock(t) ==
    /\ pc[t] = "woken"
    /\ pc' = [pc EXCEPT ![t] = "holding"]
    /\ wcall' = [wcall EXCEPT ![t] = "none"]
    /\ cvDone' = cvDone \cup {guard[t].m}
    /\ UNCHANGED <<owner, failed, guard, lk, panic, cvMutex, ret, cvUsed>>

\* Faulty variant: the returning wait looks at the poison flag as the guard
\* constructor does.
sys_condvar_wait_return_checking(t) ==
    /\ pc[t] = "woken"
    /\ sys_mutex_lock(t, guard[t].m)
    /\ wcall' = [wcall EXCEPT ![t] = "none"]
    /\ cvDone' = cvDone \cup {guard[t].m}
    /\ IF Kind(guard[t].m) = "Mutex" /\ failed[guard[t].m]
       THEN /\ panic' = [panic EXCEPT ![t] = "poisoned"]
            /\ pc' = [pc EXCEPT ![t] = "unwinding"]
       ELSE /\ pc' = [pc EXCEPT ![t] = "holding"]
            /\ UNCHANGED panic
    /\ UNCHANGED <<failed, guard, lk, cvMutex, ret, cvUsed>>

\* pthread_cond_wait / pthread_cond_timedwait, second half: lock the mutex
\* again, then return to the caller of wait / wait_timeout.
sys_condvar_wait_return(t) ==
    /\ pc[t] = "woken"
    /\ sys_mutex_lock(t, guard[t].m)
    /\ pc' = [pc EXCEPT ![t] = "holding"]
    /\ wcall' = [wcall EXCEPT ![t] = "none"]
    /\ cvDone' = cvDone \cup {guard[t].m}
    /\ UNCHANGED <<failed, guard, lk, panic, cvMutex, ret, cvUsed>>

\* ------------------------------------------------ Condvar / StaticCondvar
\* verify: `let addr = guard as *const _ as uint`, the address of the guard
\* object that was passed in.
verify_addr(t) == guard[t].addr

\* verify: the load, and the compare_and_swap(0, addr) when the load differs.
\* TRUE when verify returns, FALSE when it panics.
verify_ok(t) == cvMutex = verify_addr(t) \/ cvMutex = 0

verify_store(t) == IF cvMutex = 0 THEN verify_addr(t) ELSE cvMutex

\* wait(guard) / wait_timeout(guard, dur) up to the call of the raw wait:
\* self.verify(guard).
Condvar_wait(t, call) ==
    /\ pc[t] = "holding"
    /\ cvUsed' = cvUsed \cup {guard[t].m}
    /\ IF verify_ok(t)
       THEN /\ cvMutex' = verify_store(t)
            /\ pc' = [pc EXCEPT ![t] = "verified"]
            /\ wcall' = [wcall EXCEPT ![t] = call]
            /\ ret' = [ret EXCEPT ![t] = "none"]
            /\ UNCHANGED panic
       ELSE /\ panic' = [panic EXCEPT ![t] = "two_mutexes"]
            /\ pc' = [pc EXCEPT ![t] = "unwinding"]
            /\ UNCHANGED <<cvMutex, wcall, ret>>
    /\ UNCHANGED <<owner, failed, guard, lk, cvDone>>

\* ------------------------------------------------------- specification
\* Any thread may call any operation of the mutexes and of the condvar.
Next ==
    \/ \E t \in Threads, m \in Mutexes :
         \/ Mutex_lock(t, m) /\ UNCHANGED <<cvVars, cntVars, rwVars, restVars>>
         \/ Mutex_try_lock(t, m) /\ UNCHANGED <<cvVars, cntVars, rwVars, restVars>>
    \/ \E t \in Threads, s \in Slots :
         MutexGuard_new(t, s) /\ UNCHANGED <<cvVars, cntVars, rwVars, restVars>>
    \/ \E t \in Threads :
         \/ Spawn(t) /\ UNCHANGED <<cvVars, cntVars, rwVars, restVars>>
         \/ Panic(t) /\ UNCHANGED <<cvVars, cntVars, rwVars, restVars>>
         \/ MutexGuard_drop_flag(t) /\ UNCHANGED <<cvVars, cntVars, rwVars, restVars>>
         \/ MutexGuard_drop_unlock(t) /\ UNCHANGED <<cvVars, cntVars, rwVars, restVars>>
         \/ StaticMutexGuard_drop(t) /\ UNCHANGED <<cvVars, cntVars, rwVars, restVars>>
         \/ \E call \in {"wait", "wait_timeout"} :
              Condvar_wait(t, call) /\ UNCHANGED <<cntVars, rwVars, restVars>>
         \/ sys_condvar_wait(t) /\ UNCHANGED <<cntVars, rwVars, restVars>>
         \/ sys_condvar_notify_one(t) /\ UNCHANGED <<cntVars, rwVars, restVars>>
         \/ sys_condvar_notify_all(t) /\ UNCHANGED <<cntVars, rwVars, restVars>>
         \/ SpuriousWakeup(t) /\ UNCHANGED <<cntVars, rwVars, restVars>>
         \/ Timeout(t) /\ UNCHANGED <<cntVars, rwVars, restVars>>
         \/ sys_condvar_wait_return(t) /\ UNCHANGED <<cntVars, rwVars, restVars>>

Spec == Init /\ [][Next]_vars

\* ------------------------------------------- the counter workload (inc)
\* test::lots_and_lots: static M: StaticMutex, static mut CNT.
CntMutex == "M2"

\* `CNT += 1` under the guard: the load of CNT ...
IncRead(t) ==
    /\ pc[t] = "holding"
    /\ guard[t].m = CntMutex
    /\ cs[t] = "none"
    /\ tmp' = [tmp EXCEPT ![t] = cnt]
    /\ cs' = [cs EXCEPT ![t] = "read"]
    /\ UNCHANGED <<cnt, iters>>

\* ... and the store of the loaded value plus one.
IncWrite(t) ==
    /\ pc[t] = "holding"
    /\ cs[t] = "read"
    /\ cnt' = tmp[t] + 1
    /\ cs' = [cs EXCEPT ![t] = "written"]
    /\ UNCHANGED <<tmp, iters>>

\* The end of one iteration of `for _ in range(0, J)`: _g goes out of scope.
IncDrop(t) ==
    /\ cs[t] = "written"
    /\ StaticMutexGuard_drop(t)
    /\ cs' = [cs EXCEPT ![t] = "none"]
    /\ iters' = [iters EXCEPT ![t] = iters[t] + 1]
    /\ UNCHANGED <<cnt, tmp>>

\* inc() on every thread: Iters times { let _g = M.lock(); CNT += 1; }.
NextCount ==
    \/ \E t \in Threads :
         /\ iters[t] < Iters
         /\ Mutex_lock(t, CntMutex)
         /\ UNCHANGED <<cvVars, cntVars, rwVars, restVars>>
    \/ \E t \in Threads, s \in Slots :
         MutexGuard_new(t, s) /\ UNCHANGED <<cvVars, cntVars, rwVars, restVars>>
    \/ \E t \in Threads :
         \/ IncRead(t) /\ UNCHANGED <<mutexVars, cvVars, rwVars, restVars>>
         \/ IncWrite(t) /\ UNCHANGED <<mutexVars, cvVars, rwVars, restVars>>
         \/ IncDrop(t) /\ UNCHANGED <<cvVars, rwVars, restVars>>

SpecCount == Init /\ [][NextCount]_vars

\* ------------------------------------------------------- raw rwlock (sys)
\* Faulty variant: shared access is granted while a writer holds the lock.
sys_rwlock_read_ignoring_writer ==
    /\ rwShared' = rwShared + 1
    /\ UNCHANGED rwExcl

\* pthread_rwlock_rdlock returns once no writer holds the lock.
sys_rwlock_read ==
    /\ ~rwExcl
    /\ rwShared' = rwShared + 1
    /\ UNCHANGED rwExcl

\* pthread_rwlock_tryrdlock(..) == 0
sys_rwlock_try_read == ~rwExcl

\* Faulty variant: exclusive access is granted while readers hold the lock.
sys_rwlock_write_ignoring_readers ==
    /\ ~rwExcl
    /\ rwExcl' = TRUE
    /\ UNCHANGED rwShared

\* pthread_rwlock_wrlock returns once nobody holds the lock.
sys_rwlock_write ==
    /\ ~rwExcl
    /\ rwShared = 0
    /\ rwExcl' = TRUE
    /\ UNCHANGED rwShared

\* pthread_rwlock_trywrlock(..) == 0
sys_rwlock_try_write == ~rwExcl /\ rwShared = 0

\* read_unlock is pthread_rwlock_unlock; write_unlock calls read_unlock.
sys_rwlock_read_unlock ==
    IF rwExcl
    THEN rwExcl' = FALSE /\ UNCHANGED rwShared
    ELSE rwShared' = rwShared - 1 /\ UNCHANGED rwExcl

\* Faulty variant: write_unlock gives back a shared hold, not the exclusive
\* one.
sys_rwlock_write_unlock_as_reader ==
    /\ rwShared' = rwShared - 1
    /\ UNCHANGED rwExcl

sys_rwlock_write_unlock == sys_rwlock_read_unlock

\* ------------------------------------------------- RWLock / StaticRWLock
\* A thread enters read(): it is inside the call until the raw read returns.
RWLock_read_call(t) ==
    /\ rwCall[t] = "none"
    /\ wg[t] = 0
    /\ rg[t] < MaxReads
    /\ rwCall' = [rwCall EXCEPT ![t] = "read"]
    /\ UNCHANGED <<rwShared, rwExcl, rg, wg>>

\* read(): self.inner.read() returns and ReadGuard::new builds the guard.
RWLock_read(t) ==
    /\ rwCall[t] = "read"
    /\ sys_rwlock_read
    /\ rg' = [rg EXCEPT ![t] = rg[t] + 1]
    /\ rwCall' = [rwCall EXCEPT ![t] = "none"]
    /\ UNCHANGED wg

\* try_read(): a guard if the raw try_read succeeds, else None.
RWLock_try_read(t) ==
    /\ rwCall[t] = "none"
    /\ wg[t] = 0
    /\ rg[t] < MaxReads
    /\ IF sys_rwlock_try_read
       THEN /\ rwShared' = rwShared + 1
            /\ rg' = [rg EXCEPT ![t] = rg[t] + 1]
       ELSE UNCHANGED <<rwShared, rg>>
    /\ UNCHANGED <<rwExcl, wg, rwCall>>

\* A thread enters write().
RWLock_write_call(t) ==
    /\ rwCall[t] = "none"
    /\ wg[t] = 0
    /\ rg[t] = 0
    /\ rwCall' = [rwCall EXCEPT ![t] = "write"]
    /\ UNCHANGED <<rwShared, rwExcl, rg, wg>>

\* write(): self.inner.write() returns and WriteGuard::new builds the guard.
RWLock_write(t) ==
    /\ rwCall[t] = "write"
    /\ sys_rwlock_write
    /\ wg' = [wg EXCEPT ![t] = wg[t] + 1]
    /\ rwCall' = [rwCall EXCEPT ![t] = "none"]
    /\ UNCHANGED rg

\* Faulty variant: try_write waits for the lock as write does.
RWLock_try_write_waiting(t) ==
    /\ rwCall[t] = "none"
    /\ wg[t] = 0
    /\ rg[t] = 0
    /\ sys_rwlock_write
    /\ wg' = [wg EXCEPT ![t] = wg[t] + 1]
    /\ UNCHANGED <<rg, rwCall>>

\* try_write(): a guard if the raw try_write succeeds, else None.
RWLock_try_write(t) ==
    /\ rwCall[t] = "none"
    /\ wg[t] = 0
    /\ rg[t] = 0
    /\ IF sys_rwlock_try_write
       THEN /\ rwExcl' = TRUE
            /\ wg' = [wg EXCEPT ![t] = wg[t] + 1]
       ELSE UNCHANGED <<rwExcl, wg>>
    /\ UNCHANGED <<rwShared, rg, rwCall>>

\* Drop for ReadGuard: self.lock.read_unlock().
ReadGuard_drop(t) ==
    /\ rwCall[t] = "none"
    /\ rg[t] > 0
    /\ sys_rwlock_read_unlock
    /\ rg' = [rg EXCEPT ![t] = rg[t] - 1]
    /\ UNCHANGED <<wg, rwCall>>

\* Faulty variant: a write guard unwound by a failure leaves the lock held.
WriteGuard_drop_forgetting(t) ==
    /\ rwCall[t] = "none"
    /\ wg[t] > 0
    /\ IF rwPanic[t] # "none"
       THEN UNCHANGED <<rwShared, rwExcl>>
       ELSE sys_rwlock_write_unlock
    /\ wg' = [wg EXCEPT ![t] = wg[t] - 1]
    /\ UNCHANGED <<rg, rwCall>>

\* Drop for WriteGuard: self.lock.write_unlock().
WriteGuard_drop(t) ==
    /\ rwCall[t] = "none"
    /\ wg[t] > 0
    /\ sys_rwlock_write_unlock
    /\ wg' = [wg EXCEPT ![t] = wg[t] - 1]
    /\ UNCHANGED <<rg, rwCall>>

\* Any thread may call any operation of the rwlock.
NextRW ==
    \E t \in RWThreads :
        \/ RWLock_read_call(t) /\ UNCHANGED <<mutexVars, cvVars, cntVars, restVars>>
        \/ RWLock_read(t) /\ UNCHANGED <<mutexVars, cvVars, cntVars, restVars>>
        \/ RWLock_try_read(t) /\ UNCHANGED <<mutexVars, cvVars, cntVars, restVars>>
        \/ RWLock_write_call(t) /\ UNCHANGED <<mutexVars, cvVars, cntVars, restVars>>
        \/ RWLock_write(t) /\ UNCHANGED <<mutexVars, cvVars, cntVars, restVars>>
        \/ RWLock_try_write(t) /\ UNCHANGED <<mutexVars, cvVars, cntVars, restVars>>
        \/ ReadGuard_drop(t) /\ UNCHANGED <<mutexVars, cvVars, cntVars, restVars>>
        \/ WriteGuard_drop(t) /\ UNCHANGED <<mutexVars, cvVars, cntVars, restVars>>

SpecRW == Init /\ [][NextRW]_vars

\* ------------------------------------------------- the tests of condvar.rs
\* tests::notify_one, tests::notify_all, tests::wait_timeout and tests::smoke
\* run statement by statement.  "smoke" is followed by a wait_timeout, and
\* "unlocked_notify" is a notify_one by a thread that does not take the mutex,
\* racing with a wait_timeout.
Tests == {"notify_one", "notify_all", "wait_timeout", "smoke", "unlocked_notify"}

\* The thread of the #[test] function, and the task it spawns.
Main == 1
Child == 2

\* static M: StaticMutex of the tests.
TestMutex == "M2"

\* The statements of thread t in test tst.
Script(tst, t) ==
    IF t = Main
    THEN CASE tst = "notify_one" -> <<"lock", "spawn", "wait", "drop">>
           [] tst = "notify_all" -> <<"lock", "spawn", "wait", "drop">>
           [] tst = "wait_timeout" ->
                <<"lock", "wait_timeout", "assert_false", "spawn",
                  "wait_timeout", "assert_true", "drop">>
           [] tst = "smoke" ->
                <<"notify_one", "notify_all", "lock", "wait_timeout", "drop">>
           [] tst = "unlocked_notify" ->
                <<"spawn", "lock", "wait_timeout", "drop">>
           [] OTHER -> <<>>
    ELSE IF t = Child
    THEN CASE tst = "notify_all" -> <<"lock", "notify_all", "drop">>
           [] tst = "unlocked_notify" -> <<"notify_one">>
           [] tst = "smoke" -> <<>>
           [] OTHER -> <<"lock", "notify_one", "drop">>
    ELSE <<>>

\* The statement thread t is at ("end": it has run them all).
Op(t) ==
    IF ip[t] <= Len(Script(test, t)) THEN Script(test, t)[ip[t]] ELSE "end"

Advance(t) == ip' = [ip EXCEPT ![t] = ip[t] + 1]

\* What a notification (call: notify_one or notify_all) has done to each
\* thread that was blocked when it was made: unblocked it, or passed it over.
WakeBy(call) ==
    wake' = [w \in AllThreads |->
               IF pc[w] = "waiting"
               THEN IF pc'[w] # "waiting" THEN call ELSE "passed_over"
               ELSE wake[w]]

Notified == {"notify_one", "notify_all"}

\* let g = M.lock(): the raw lock ...
CvLock(t) ==
    /\ Op(t) = "lock"
    /\ Mutex_lock(t, TestMutex)
    /\ UNCHANGED <<cvVars, cntVars, rwVars, moreVars, barVars, test, ip, wake>>

\* ... and the guard, in some slot of the stack.
CvGuard(t, s) ==
    /\ Op(t) = "lock"
    /\ MutexGuard_new(t, s)
    /\ Advance(t)
    /\ UNCHANGED <<cvVars, cntVars, rwVars, moreVars, barVars, test, wake>>

\* spawn(proc() { .. }): the child task starts.
CvSpawn(t) ==
    /\ Op(t) = "spawn"
    /\ pc[t] \in {"idle", "holding"}
    /\ Spawn(Child)
    /\ Advance(t)
    /\ UNCHANGED <<cvVars, cntVars, rwVars, moreVars, barVars, test, wake>>

\* C.wait(&g) / C.wait_timeout(&g, dur): the binding check ...
CvWait(t) ==
    /\ Op(t) \in {"wait", "wait_timeout"}
    /\ Condvar_wait(t, Op(t))
    /\ wake' = [wake EXCEPT ![t] = "none"]
    /\ UNCHANGED <<cntVars, rwVars, moreVars, barVars, test, ip>>

\* ... the raw wait releases the mutex and blocks ...
CvBlock(t) ==
    /\ sys_condvar_wait(t)
    /\ UNCHANGED <<cntVars, rwVars, moreVars, barVars, testVars>>

\* ... and, unblocked, locks the mutex again and returns.
CvReturn(t) ==
    /\ sys_condvar_wait_return(t)
    /\ Advance(t)
    /\ UNCHANGED <<cntVars, rwVars, moreVars, barVars, test, wake>>

\* C.notify_one()
CvNotifyOne(t) ==
    /\ Op(t) = "notify_one"
    /\ sys_condvar_notify_one(t)
    /\ WakeBy("notify_one")
    /\ Advance(t)
    /\ UNCHANGED <<cntVars, rwVars, moreVars, barVars, test>>

\* C.notify_all()
CvNotifyAll(t) ==
    /\ Op(t) = "notify_all"
    /\ sys_condvar_notify_all(t)
    /\ WakeBy("notify_all")
    /\ Advance(t)
    /\ UNCHANGED <<cntVars, rwVars, moreVars, barVars, test>>

CvSpurious(t) ==
    /\ SpuriousWakeup(t)
    /\ wake' = [wake EXCEPT ![t] = "spurious"]
    /\ UNCHANGED <<cntVars, rwVars, moreVars, barVars, test, ip>>

CvTimeout(t) ==
    /\ Timeout(t)
    /\ wake' = [wake EXCEPT ![t] = "timeout"]
    /\ UNCHANGED <<cntVars, rwVars, moreVars, barVars, test, ip>>

\* assert!(!C.wait_timeout(..)) / assert!(C.wait_timeout(..)): the value the
\* call has returned is tested, and the thread panics if it is the other one.
CvAssert(t) ==
    /\ Op(t) \in {"assert_false", "assert_true"}
    /\ pc[t] = "holding"
    /\ IF ret[t] = (IF Op(t) = "assert_false" THEN "false" ELSE "true")
       THEN Advance(t) /\ UNCHANGED <<pc, panic>>
       ELSE /\ panic' = [panic EXCEPT ![t] = "assert"]
            /\ pc' = [pc EXCEPT ![t] = "unwinding"]
            /\ UNCHANGED ip
    /\ UNCHANGED <<owner, failed, guard, lk, ret>>
    /\ UNCHANGED <<cvVars, cntVars, rwVars, moreVars, barVars, test, wake>>

\* drop(g), or the guard unwound by a panic.
CvDrop(t) ==
    /\ Op(t) = "drop" \/ pc[t] = "unwinding"
    /\ StaticMutexGuard_drop(t)
    /\ IF Op(t) = "drop" THEN Advance(t) ELSE UNCHANGED ip
    /\ UNCHANGED <<cvVars, cntVars, rwVars, moreVars, barVars, test, wake>>

\* The steps thread t takes by itself.
CvThread(t) ==
    \/ CvLock(t)
    \/ \E s \in Slots : CvGuard(t, s)
    \/ CvSpawn(t)
    \/ CvWait(t)
    \/ CvBlock(t)
    \/ CvReturn(t)
    \/ CvNotifyOne(t)
    \/ CvNotifyAll(t)
    \/ CvAssert(t)
    \/ CvDrop(t)

NextCv ==
    \E t \in Threads :
        \/ CvThread(t)
        \/ CvSpurious(t)
        \/ CvTimeout(t)

\* One of the tests is picked; the child task is not running yet.
InitCv ==
    /\ InitObjects
    /\ pc = [t \in AllThreads |-> IF t = Child THEN "dead" ELSE "idle"]
    /\ test \in Tests
    /\ num_threads = NumParties

SpecCv == InitCv /\ [][NextCv]_vars

\* The scheduler lets every thread that can take a step take one; a spurious
\* wakeup or an elapsed deadline is never owed to a blocked thread.
FairSpecCv == SpecCv /\ \A t \in Threads : WF_vars(CvThread(t))

\* --------------------------------------------- the raw primitives, direct
\* Threads that use sys::Mutex and sys::Condvar themselves: no guard object
\* and no binding check stand between them and the raw calls.
SysWaiters == 1..NumWaiters
SysNotifier == NumWaiters + 1
SysThreads == SysWaiters \cup {SysNotifier}

\* The sys::Mutex they pass to sys::Condvar::wait.
SysMutex == "M2"

\* sys::Mutex::lock
SysLock(t) ==
    /\ pc[t] = "idle"
    /\ sys_mutex_lock(t, SysMutex)
    /\ pc' = [pc EXCEPT ![t] = "holding"]
    /\ guard' = [guard EXCEPT ![t] = [m |-> SysMutex, addr |-> 0]]
    /\ UNCHANGED <<failed, lk, panic, ret>>
    /\ UNCHANGED <<cvVars, cntVars, rwVars, moreVars, barVars, testVars>>

\* sys::Mutex::unlock
SysUnlock(t) ==
    /\ pc[t] = "holding"
    /\ sys_mutex_unlock(guard[t].m)
    /\ pc' = [pc EXCEPT ![t] = "idle"]
    /\ guard' = [guard EXCEPT ![t] = NoGuard]
    /\ ret' = [ret EXCEPT ![t] = "none"]
    /\ UNCHANGED <<failed, lk, panic>>
    /\ UNCHANGED <<cvVars, cntVars, rwVars, moreVars, barVars, testVars>>

\* sys::Condvar::wait(mutex) / wait_timeout(mutex, dur) is entered ...
SysWait(t, call) ==
    /\ pc[t] = "holding"
    /\ pc' = [pc EXCEPT ![t] = "verified"]
    /\ wcall' = [wcall EXCEPT ![t] = call]
    /\ ret' = [ret EXCEPT ![t] = "none"]
    /\ wake' = [wake EXCEPT ![t] = "none"]
    /\ UNCHANGED <<owner, failed, guard, lk, panic, cvMutex, cvUsed, cvDone>>
    /\ UNCHANGED <<cntVars, rwVars, moreVars, barVars, test, ip>>

\* ... releases the mutex and blocks ...
SysBlock(t) ==
    /\ sys_condvar_wait(t)
    /\ UNCHANGED <<cntVars, rwVars, moreVars, barVars, testVars>>

\* ... and, unblocked, locks the mutex again and returns.
SysReturn(t) ==
    /\ sys_condvar_wait_return(t)
    /\ UNCHANGED <<cntVars, rwVars, moreVars, barVars, testVars>>

\* sys::Condvar::notify_one
SysNotifyOne(t) ==
    /\ sys_condvar_notify_one(t)
    /\ WakeBy("notify_one")
    /\ UNCHANGED <<cntVars, rwVars, moreVars, barVars, test, ip>>

\* sys::Condvar::notify_all
SysNotifyAll(t) ==
    /\ sys_condvar_notify_all(t)
    /\ WakeBy("notify_all")
    /\ UNCHANGED <<cntVars, rwVars, moreVars, barVars, test, ip>>

\* The waiters lock, wait and unlock; the notifier notifies, under the mutex
\* or not.
NextSys ==
    \/ \E t \in SysThreads :
         \/ SysLock(t)
         \/ SysUnlock(t)
    \/ \E t \in SysWaiters :
         \/ \E call \in {"wait", "wait_timeout"} : SysWait(t, call)
         \/ SysBlock(t)
         \/ SysReturn(t)
         \/ CvSpurious(t)
         \/ CvTimeout(t)
    \/ SysNotifyOne(SysNotifier)
    \/ SysNotifyAll(SysNotifier)

SpecSys == Init /\ [][NextSys]_vars

\* Every thread that holds the mutex releases it in the end, by unlocking it
\* or by waiting; a thread that has entered a wait blocks; and an unblocked
\* thread gets the mutex if it is free again and again.
FairSpecSys ==
    /\ SpecSys
    /\ WF_vars(SysUnlock(SysNotifier))
    /\ \A t \in SysWaiters :
         /\ WF_vars(SysUnlock(t) \/ \E call \in {"wait", "wait_timeout"} : SysWait(t, call))
         /\ WF_vars(SysBlock(t))
         /\ SF_vars(SysReturn(t))

\* ------------------------------------------------------------- Barrier
\* Barrier { lock: Mutex<BarrierState>, cvar: Condvar, num_threads }.
BarMutex == "M1"
Parties == 1..NumParties
BarrierSizes == 2..NumParties

\* wait(): let mut lock = self.lock.lock() -- the raw lock ...
BarLock(t) ==
    /\ bpc[t] = "out"
    /\ calls[t] < MaxCalls
    /\ Mutex_lock(t, BarMutex)
    /\ bpc' = [bpc EXCEPT ![t] = "lock"]
    /\ calls' = [calls EXCEPT ![t] = calls[t] + 1]
    /\ UNCHANGED <<num_threads, count, generation_id, local_gen, rets>>
    /\ UNCHANGED <<cvVars, cntVars, rwVars, moreVars, testVars>>

\* ... and the guard `lock`, a local of wait(); it panics if the mutex is
\* poisoned.
BarGuard(t, s) ==
    /\ bpc[t] = "lock"
    /\ MutexGuard_new(t, s)
    /\ bpc' = [bpc EXCEPT ![t] = "count"]
    /\ UNCHANGED <<num_threads, count, generation_id, local_gen, calls, rets>>
    /\ UNCHANGED <<cvVars, cntVars, rwVars, moreVars, testVars>>

\* Faulty variant: the party that makes count reach num_threads waits too.
BarCount_le(t) ==
    /\ bpc[t] = "count"
    /\ pc[t] = "holding"
    /\ local_gen' = [local_gen EXCEPT ![t] = generation_id]
    /\ count' = count + 1
    /\ bpc' = [bpc EXCEPT ![t] =
                 IF count + 1 <= num_threads THEN "loop" ELSE "release"]
    /\ UNCHANGED <<num_threads, generation_id, calls, rets>>
    /\ UNCHANGED <<mutexVars, cvVars, cntVars, rwVars, moreVars, testVars>>

\* let local_gen = lock.generation_id; lock.count += 1;
\* if lock.count < self.num_threads { .. } else { .. }
BarCount(t) ==
    /\ bpc[t] = "count"
    /\ pc[t] = "holding"
    /\ local_gen' = [local_gen EXCEPT ![t] = generation_id]
    /\ count' = count + 1
    /\ bpc' = [bpc EXCEPT ![t] =
                 IF count + 1 < num_threads THEN "loop" ELSE "release"]
    /\ UNCHANGED <<num_threads, generation_id, calls, rets>>
    /\ UNCHANGED <<mutexVars, cvVars, cntVars, rwVars, moreVars, testVars>>

\* Faulty variant: the loop looks at count only, not at the generation.
BarLoopCond_count_only(t) == count < num_threads

\* The condition of the while loop.
BarLoopCond(t) == local_gen[t] = generation_id /\ count < num_threads

\* while .. { self.cvar.wait(&lock) }: the condition holds, wait is called.
BarCvWait(t) ==
    /\ bpc[t] = "loop"
    /\ BarLoopCond(t)
    /\ Condvar_wait(t, "wait")
    /\ UNCHANGED <<barVars, cntVars, rwVars, moreVars, testVars>>

\* Faulty variant: the loop is left after a wait whatever the generation is.
BarLoopExit_unchecked(t) ==
    /\ bpc[t] = "loop"
    /\ pc[t] = "holding"
    /\ ~BarLoopCond(t) \/ cvMutex = verify_addr(t)
    /\ bpc' = [bpc EXCEPT ![t] = "waited"]
    /\ UNCHANGED <<num_threads, count, generation_id, local_gen, calls, rets>>
    /\ UNCHANGED <<mutexVars, cvVars, cntVars, rwVars, moreVars, testVars>>

\* The condition of the while loop fails: the loop is left.
BarLoopExit(t) ==
    /\ bpc[t] = "loop"
    /\ pc[t] = "holding"
    /\ ~BarLoopCond(t)
    /\ bpc' = [bpc EXCEPT ![t] = "waited"]
    /\ UNCHANGED <<num_threads, count, generation_id, local_gen, calls, rets>>
    /\ UNCHANGED <<mutexVars, cvVars, cntVars, rwVars, moreVars, testVars>>

\* Faulty variant: the releaser leaves count as it is.
BarRelease_no_reset(t) ==
    /\ bpc[t] = "release"
    /\ generation_id' = generation_id + 1
    /\ sys_condvar_notify_all(t)
    /\ bpc' = [bpc EXCEPT ![t] = "released"]
    /\ UNCHANGED <<num_threads, count, local_gen, calls, rets>>
    /\ UNCHANGED <<cntVars, rwVars, moreVars, testVars>>

\* lock.count = 0; lock.generation_id += 1; self.cvar.notify_all();
BarRelease(t) ==
    /\ bpc[t] = "release"
    /\ count' = 0
    /\ generation_id' = generation_id + 1
    /\ sys_condvar_notify_all(t)
    /\ bpc' = [bpc EXCEPT ![t] = "released"]
    /\ UNCHANGED <<num_threads, local_gen, calls, rets>>
    /\ UNCHANGED <<cntVars, rwVars, moreVars, testVars>>

\* The end of wait(), or a panic unwinding it: `lock` is dropped -- the
\* poison flag ...
BarDropFlag(t) ==
    /\ bpc[t] \in {"waited", "released"} \/ pc[t] = "unwinding"
    /\ bpc[t] # "out"
    /\ MutexGuard_drop_flag(t)
    /\ UNCHANGED <<barVars, cvVars, cntVars, rwVars, moreVars, testVars>>

\* ... and the unlock; wait() has returned unless the thread is failing.
BarDropUnlock(t) ==
    /\ bpc[t] # "out"
    /\ MutexGuard_drop_unlock(t)
    /\ bpc' = [bpc EXCEPT ![t] = "out"]
    /\ rets' = [rets EXCEPT ![t] = IF failing(t) THEN rets[t] ELSE rets[t] + 1]
    /\ UNCHANGED <<num_threads, count, generation_id, local_gen, calls>>
    /\ UNCHANGED <<cvVars, cntVars, rwVars, moreVars, testVars>>

\* The steps thread t takes by itself.
BarThread(t) ==
    \/ BarLock(t)
    \/ \E s \in Slots : BarGuard(t, s)
    \/ BarCount(t)
    \/ BarCvWait(t)
    \/ SysBlock(t)
    \/ SysReturn(t)
    \/ BarLoopExit(t)
    \/ BarRelease(t)
    \/ BarDropFlag(t)
    \/ BarDropUnlock(t)

NextBarrier ==
    \E t \in Parties :
        \/ BarThread(t)
        \/ CvSpurious(t)

\* Barrier::new(n) for some n.
InitBarrier ==
    /\ InitObjects
    /\ pc = [t \in AllThreads |-> "idle"]
    /\ test = "none"
    /\ num_threads \in BarrierSizes

SpecBarrier == InitBarrier /\ [][NextBarrier]_vars

\* The scheduler lets every thread that can take a step take one; a spurious
\* wakeup is never owed to a blocked thread.
FairSpecBarrier == SpecBarrier /\ \A t \in Parties : WF_vars(BarThread(t))

\* ------------------------------------------- the mutexes, calls recorded
\* Threads lock, try_lock, fail and drop on both mutexes, away from any
\* condvar; what the last try_lock has returned and where threads have failed
\* is recorded.

\* The result of the try_lock call thread t makes on mutex m.
TryResult(m) == IF sys_mutex_try_lock(m) THEN "Some" ELSE "None"

LkLock(t, m) ==
    /\ Mutex_lock(t, m)
    /\ UNCHANGED <<cvVars, cntVars, rwVars, testVars, barVars>>
    /\ UNCHANGED <<lockVars, rwFailVars, frobVars, seen, winVars, deadlineVars, flagVars>>

LkTryLock(t, m) ==
    /\ Mutex_try_lock(t, m)
    /\ tried' = [t |-> t, call |-> "try_lock", m |-> m, res |-> TryResult(m)]
    /\ UNCHANGED <<cvVars, cntVars, rwVars, testVars, barVars>>
    /\ UNCHANGED <<failedIn, rwFailVars, frobVars, seen, winVars, deadlineVars, flagVars>>

\* The guard constructor; a panic in it unwinds the guard it has built.
LkGuard(t, s) ==
    /\ MutexGuard_new(t, s)
    /\ failedIn' = IF failing(t)' THEN failedIn \cup {lk[t]} ELSE failedIn
    /\ UNCHANGED <<cvVars, cntVars, rwVars, testVars, barVars>>
    /\ UNCHANGED <<tried, rwFailVars, frobVars, seen, winVars, deadlineVars, flagVars>>

LkPanic(t) ==
    /\ Panic(t)
    /\ failedIn' = failedIn \cup {guard[t].m}
    /\ UNCHANGED <<cvVars, cntVars, rwVars, testVars, barVars>>
    /\ UNCHANGED <<tried, rwFailVars, frobVars, seen, winVars, deadlineVars, flagVars>>

LkDropFlag(t) ==
    /\ MutexGuard_drop_flag(t)
    /\ UNCHANGED <<cvVars, cntVars, rwVars, testVars, barVars, moreVars>>

LkDropUnlock(t) ==
    /\ MutexGuard_drop_unlock(t)
    /\ UNCHANGED <<cvVars, cntVars, rwVars, testVars, barVars, moreVars>>

LkStaticDrop(t) ==
    /\ StaticMutexGuard_drop(t)
    /\ UNCHANGED <<cvVars, cntVars, rwVars, testVars, barVars, moreVars>>

LkSpawn(t) ==
    /\ Spawn(t)
    /\ UNCHANGED <<cvVars, cntVars, rwVars, testVars, barVars, moreVars>>

NextLock ==
    \/ \E t \in Threads, m \in Mutexes :
         \/ LkLock(t, m)
         \/ LkTryLock(t, m)
    \/ \E t \in Threads, s \in Slots : LkGuard(t, s)
    \/ \E t \in Threads :
         \/ LkPanic(t)
         \/ LkDropFlag(t)
         \/ LkDropUnlock(t)
         \/ LkStaticDrop(t)
         \/ LkSpawn(t)

SpecLock == Init /\ [][NextLock]_vars

\* ------------------------------------------- the rwlock, calls recorded
\* Threads read, try_read, write, try_write and drop on the rwlock R; what
\* the last try_read or try_write has returned is recorded.
RwName == "R"

RtTryRead(t) ==
    /\ RWLock_try_read(t)
    /\ tried' = [t |-> t, call |-> "try_read", m |-> RwName,
                 res |-> IF sys_rwlock_try_read THEN "Some" ELSE "None"]
    /\ UNCHANGED <<mutexVars, cvVars, cntVars, testVars, barVars>>
    /\ UNCHANGED <<failedIn, rwFailVars, frobVars, seen, winVars, deadlineVars, flagVars>>

RtTryWrite(t) ==
    /\ RWLock_try_write(t)
    /\ tried' = [t |-> t, call |-> "try_write", m |-> RwName,
                 res |-> IF sys_rwlock_try_write THEN "Some" ELSE "None"]
    /\ UNCHANGED <<mutexVars, cvVars, cntVars, testVars, barVars>>
    /\ UNCHANGED <<failedIn, rwFailVars, frobVars, seen, winVars, deadlineVars, flagVars>>

NextRWTry ==
    \E t \in RWThreads :
        \/ RWLock_read_call(t) /\ UNCHANGED <<mutexVars, cvVars, cntVars, restVars>>
        \/ RWLock_read(t) /\ UNCHANGED <<mutexVars, cvVars, cntVars, restVars>>
        \/ RtTryRead(t)
        \/ RWLock_write_call(t) /\ UNCHANGED <<mutexVars, cvVars, cntVars, restVars>>
        \/ RWLock_write(t) /\ UNCHANGED <<mutexVars, cvVars, cntVars, restVars>>
        \/ RtTryWrite(t)
        \/ ReadGuard_drop(t) /\ UNCHANGED <<mutexVars, cvVars, cntVars, restVars>>
        \/ WriteGuard_drop(t) /\ UNCHANGED <<mutexVars, cvVars, cntVars, restVars>>

SpecRWTry == Init /\ [][NextRWTry]_vars

\* ------------------------------------------- the rwlock, failing threads
\* Threads read, try_read, write, try_write, fail and drop on the rwlock;
\* under which guards threads have failed is recorded.

\* The thread is running user code: it is not unwinding.
RwRunning(t) == rwPanic[t] = "none"

RfReadCall(t) ==
    /\ RwRunning(t)
    /\ RWLock_read_call(t)
    /\ UNCHANGED <<mutexVars, cvVars, cntVars, restVars>>

RfRead(t) ==
    /\ RWLock_read(t)
    /\ UNCHANGED <<mutexVars, cvVars, cntVars, restVars>>

RfTryRead(t) ==
    /\ RwRunning(t)
    /\ RWLock_try_read(t)
    /\ UNCHANGED <<mutexVars, cvVars, cntVars, restVars>>

RfWriteCall(t) ==
    /\ RwRunning(t)
    /\ RWLock_write_call(t)
    /\ UNCHANGED <<mutexVars, cvVars, cntVars, restVars>>

RfWrite(t) ==
    /\ RWLock_write(t)
    /\ UNCHANGED <<mutexVars, cvVars, cntVars, restVars>>

RfTryWrite(t) ==
    /\ RwRunning(t)
    /\ RWLock_try_write(t)
    /\ UNCHANGED <<mutexVars, cvVars, cntVars, restVars>>

\* User code panics while the thread has guards: they will be unwound.
RfPanic(t) ==
    /\ RwRunning(t)
    /\ rwCall[t] = "none"
    /\ rg[t] > 0 \/ wg[t] > 0
    /\ rwPanic' = [rwPanic EXCEPT ![t] = "user"]
    /\ rwFailedIn' = rwFailedIn \cup (IF rg[t] > 0 THEN {"read"} ELSE {})
                                \cup (IF wg[t] > 0 THEN {"write"} ELSE {})
    /\ UNCHANGED <<mutexVars, cvVars, cntVars, rwVars, testVars, barVars>>
    /\ UNCHANGED <<lockVars, frobVars, seen, winVars, deadlineVars, flagVars>>

\* A guard is dropped, by user code or by the unwinding.
RfReadDrop(t) ==
    /\ ReadGuard_drop(t)
    /\ UNCHANGED <<mutexVars, cvVars, cntVars, restVars>>

RfWriteDrop(t) ==
    /\ WriteGuard_drop(t)
    /\ UNCHANGED <<mutexVars, cvVars, cntVars, restVars>>

\* A failed thread has unwound all its guards; a new task starts in its place.
RfSpawn(t) ==
    /\ ~RwRunning(t)
    /\ rg[t] = 0 /\ wg[t] = 0
    /\ rwPanic' = [rwPanic EXCEPT ![t] = "none"]
    /\ UNCHANGED <<mutexVars, cvVars, cntVars, rwVars, testVars, barVars>>
    /\ UNCHANGED <<lockVars, rwFailedIn, frobVars, seen, winVars, deadlineVars, flagVars>>

NextRWFail ==
    \E t \in RWThreads :
        \/ RfReadCall(t)
        \/ RfRead(t)
        \/ RfTryRead(t)
        \/ RfWriteCall(t)
        \/ RfWrite(t)
        \/ RfTryWrite(t)
        \/ RfPanic(t)
        \/ RfReadDrop(t)
        \/ RfWriteDrop(t)
        \/ RfSpawn(t)

SpecRWFail == Init /\ [][NextRWFail]_vars

\* ------------------------------------------------------------ tests::frob
\* Every thread runs FrobIters iterations, each one `drop(R.write())` or
\* `drop(R.read())` as the random generator decides.
FrobIdle(t) == rwCall[t] = "none" /\ rg[t] = 0 /\ wg[t] = 0

FrobDone(t) == rwIters[t] = FrobIters /\ FrobIdle(t)

\* One iteration is over: what it took is noted.
FrobCount(t, kind) ==
    /\ rwIters' = [rwIters EXCEPT ![t] = rwIters[t] + 1]
    /\ frobKinds' = frobKinds \cup {kind}

\* rng.gen_weighted_bool(N) is true: R.write() is called ...
FrobWriteCall(t) ==
    /\ rwIters[t] < FrobIters
    /\ FrobIdle(t)
    /\ RWLock_write_call(t)
    /\ UNCHANGED <<mutexVars, cvVars, cntVars, restVars>>

\* ... returns the guard ...
FrobWrite(t) ==
    /\ RWLock_write(t)
    /\ UNCHANGED <<mutexVars, cvVars, cntVars, restVars>>

\* ... and drop() destroys it.
FrobWriteDrop(t) ==
    /\ WriteGuard_drop(t)
    /\ FrobCount(t, "write")
    /\ UNCHANGED <<mutexVars, cvVars, cntVars, testVars, barVars>>
    /\ UNCHANGED <<lockVars, rwFailVars, seen, winVars, deadlineVars, flagVars>>

\* rng.gen_weighted_bool(N) is false: R.read() is called ...
FrobReadCall(t) ==
    /\ rwIters[t] < FrobIters
    /\ FrobIdle(t)
    /\ RWLock_read_call(t)
    /\ UNCHANGED <<mutexVars, cvVars, cntVars, restVars>>

FrobRead(t) ==
    /\ RWLock_read(t)
    /\ UNCHANGED <<mutexVars, cvVars, cntVars, restVars>>

FrobReadDrop(t) ==
    /\ ReadGuard_drop(t)
    /\ FrobCount(t, "read")
    /\ UNCHANGED <<mutexVars, cvVars, cntVars, testVars, barVars>>
    /\ UNCHANGED <<lockVars, rwFailVars, seen, winVars, deadlineVars, flagVars>>

\* The steps thread t takes by itself.
FrobThread(t) ==
    \/ FrobWriteCall(t)
    \/ FrobWrite(t)
    \/ FrobWriteDrop(t)
    \/ FrobReadCall(t)
    \/ FrobRead(t)
    \/ FrobReadDrop(t)

NextFrob == \E t \in RWThreads : FrobThread(t)

SpecFrob == Init /\ [][NextFrob]_vars

\* The scheduler lets every thread that can take a step take one.
FairSpecFrob == SpecFrob /\ \A t \in RWThreads : WF_vars(FrobThread(t))

\* ------------------------------------------- verify, one atomic at a time
\* StaticCondvar::verify is a load of `mutex` followed, when the loaded value
\* is not the caller's, by a compare_and_swap: two atomic operations between
\* which other threads run.

\* wait(guard): verify's `self.mutex.load(SeqCst)`.
verify_load(t, call) ==
    /\ pc[t] = "holding"
    /\ seen' = [seen EXCEPT ![t] = cvMutex]
    /\ pc' = [pc EXCEPT ![t] = "loaded"]
    /\ wcall' = [wcall EXCEPT ![t] = call]
    /\ cvUsed' = cvUsed \cup {guard[t].m}
    /\ ret' = [ret EXCEPT ![t] = "none"]
    /\ UNCHANGED <<owner, failed, guard, lk, panic, cvMutex, cvDone>>

\* Faulty variant: the identity is written with a plain store.
verify_cas_storing(t) ==
    /\ pc[t] = "loaded"
    /\ cvMutex' = IF seen[t] = verify_addr(t) THEN cvMutex ELSE verify_addr(t)
    /\ pc' = [pc EXCEPT ![t] = "verified"]
    /\ UNCHANGED <<owner, failed, guard, lk, panic, ret, wcall, cvUsed, cvDone, seen>>

\* verify's `if load != addr { match compare_and_swap(0, addr) { 0 => {}
\* _ => panic!(..) } }`; the raw wait is called next.
verify_cas(t) ==
    /\ pc[t] = "loaded"
    /\ IF seen[t] = verify_addr(t)
       THEN /\ pc' = [pc EXCEPT ![t] = "verified"]
            /\ UNCHANGED <<cvMutex, panic, wcall>>
       ELSE IF cvMutex = 0
       THEN /\ cvMutex' = verify_addr(t)
            /\ pc' = [pc EXCEPT ![t] = "verified"]
            /\ UNCHANGED <<panic, wcall>>
       ELSE /\ panic' = [panic EXCEPT ![t] = "two_mutexes"]
            /\ pc' = [pc EXCEPT ![t] = "unwinding"]
            /\ wcall' = [wcall EXCEPT ![t] = "none"]
            /\ UNCHANGED cvMutex
    /\ UNCHANGED <<owner, failed, guard, lk, ret, cvUsed, cvDone, seen>>

\* Any thread may lock either mutex, wait with its guard, notify and drop.
NextVerify ==
    \/ \E t \in Threads, m \in Mutexes :
         Mutex_lock(t, m) /\ UNCHANGED <<cvVars, cntVars, rwVars, restVars>>
    \/ \E t \in Threads, s \in Slots :
         MutexGuard_new(t, s) /\ UNCHANGED <<cvVars, cntVars, rwVars, restVars>>
    \/ \E t \in Threads :
         \/ verify_load(t, "wait")
              /\ UNCHANGED <<cntVars, rwVars, testVars, barVars>>
              /\ UNCHANGED <<lockVars, rwFailVars, frobVars, winVars, deadlineVars, flagVars>>
         \/ verify_cas(t)
              /\ UNCHANGED <<cntVars, rwVars, testVars, barVars>>
              /\ UNCHANGED <<lockVars, rwFailVars, frobVars, winVars, deadlineVars, flagVars>>
         \/ sys_condvar_wait(t) /\ UNCHANGED <<cntVars, rwVars, restVars>>
         \/ sys_condvar_notify_one(t) /\ UNCHANGED <<cntVars, rwVars, restVars>>
         \/ SpuriousWakeup(t) /\ UNCHANGED <<cntVars, rwVars, restVars>>
         \/ sys_condvar_wait_return(t) /\ UNCHANGED <<cntVars, rwVars, restVars>>
         \/ MutexGuard_drop_flag(t) /\ UNCHANGED <<cvVars, cntVars, rwVars, restVars>>
         \/ MutexGuard_drop_unlock(t) /\ UNCHANGED <<cvVars, cntVars, rwVars, restVars>>
         \/ StaticMutexGuard_drop(t) /\ UNCHANGED <<cvVars, cntVars, rwVars, restVars>>
         \/ Spawn(t) /\ UNCHANGED <<cvVars, cntVars, rwVars, restVars>>

SpecVerify == Init /\ [][NextVerify]_vars

\* ===================================================================
\* The raw mutex of Windows (sys/mutex.rs, #[cfg(windows)] mod imp)
\* ===================================================================
\* Mutex { inner: AtomicUint }: the address of a heap-allocated critical
\* section, or 0 while a statically initialized mutex was never used.

\* heap::allocate gives a block that is not in use; as handles stand for
\* allocations, a block that was given once is not given again.
IsFresh(h) == h \notin live /\ freed[h] = 0
FreshHandle == CHOOSE h \in Handles :
                   IsFresh(h) /\ \A g \in Handles : IsFresh(g) => h <= g

\* init_lock: heap::allocate and InitializeCriticalSectionAndSpinCount.
init_lock(h) ==
    /\ live' = live \cup {h}
    /\ UNCHANGED <<freed, csOwner>>

\* free_lock: DeleteCriticalSection and heap::deallocate.
free_lock(h) ==
    /\ live' = live \ {h}
    /\ freed' = [freed EXCEPT ![h] = freed[h] + 1]
    /\ UNCHANGED csOwner

\* destroy() has been called: there are no users of the mutex any more.
DestroyStarted == \E t \in WinThreads : destroys[t] > 0

\* The critical section thread t is inside, if any.
Entered(t) == {h \in HandlesOrNull : csOwner[h] = t}

\* A thread calls lock, try_lock or unlock: each starts with self.get().
WinCall(t, op) ==
    /\ wpc[t] = "idle"
    /\ ~DestroyStarted
    /\ IF op = "unlock"
       THEN Entered(t) # {} /\ UNCHANGED wcalls
       ELSE /\ Entered(t) = {}
            /\ wcalls[t] < WinCalls
            /\ wcalls' = [wcalls EXCEPT ![t] = wcalls[t] + 1]
    /\ wop' = [wop EXCEPT ![t] = op]
    /\ wpc' = [wpc EXCEPT ![t] = "load"]
    /\ UNCHANGED <<inner, lock, handle, live, freed, csOwner, destroys>>

\* get(): match self.inner.load(SeqCst) { 0 => {} n => return n }
get_load(t) ==
    /\ wpc[t] = "load"
    /\ IF inner = 0
       THEN /\ wpc' = [wpc EXCEPT ![t] = "init"]
            /\ UNCHANGED handle
       ELSE /\ wpc' = [wpc EXCEPT ![t] = "call"]
            /\ handle' = [handle EXCEPT ![t] = inner]
    /\ UNCHANGED <<inner, lock, live, freed, csOwner, wop, wcalls, destroys>>

\* get(): let lock = init_lock();
get_init_lock(t) ==
    /\ wpc[t] = "init"
    /\ \E h \in Handles : IsFresh(h)
    /\ init_lock(FreshHandle)
    /\ lock' = [lock EXCEPT ![t] = FreshHandle]
    /\ wpc' = [wpc EXCEPT ![t] = "cas"]
    /\ UNCHANGED <<inner, handle, wop, wcalls, destroys>>

\* Faulty variant: the handle is stored whatever `inner` holds.
get_cas_storing(t) ==
    /\ wpc[t] = "cas"
    /\ inner' = lock[t]
    /\ handle' = [handle EXCEPT ![t] = lock[t]]
    /\ wpc' = [wpc EXCEPT ![t] = "call"]
    /\ UNCHANGED <<lock, live, freed, csOwner, wop, wcalls, destroys>>

\* get(): match self.inner.compare_and_swap(0, lock, SeqCst)
\*            { 0 => return lock, _ => {} }
get_cas(t) ==
    /\ wpc[t] = "cas"
    /\ IF inner = 0
       THEN /\ inner' = lock[t]
            /\ handle' = [handle EXCEPT ![t] = lock[t]]
            /\ wpc' = [wpc EXCEPT ![t] = "call"]
       ELSE /\ wpc' = [wpc EXCEPT ![t] = "free"]
            /\ UNCHANGED <<inner, handle>>
    /\ UNCHANGED <<lock, live, freed, csOwner, wop, wcalls, destroys>>

\* get(): free_lock(lock);
get_free_lock(t) ==
    /\ wpc[t] = "free"
    /\ free_lock(lock[t])
    /\ wpc' = [wpc EXCEPT ![t] = "reload"]
    /\ UNCHANGED <<inner, lock, handle, wop, wcalls, destroys>>

\* get(): return self.inner.load(SeqCst)
get_reload(t) ==
    /\ wpc[t] = "reload"
    /\ handle' = [handle EXCEPT ![t] = inner]
    /\ wpc' = [wpc EXCEPT ![t] = "call"]
    /\ UNCHANGED <<inner, lock, live, freed, csOwner, wop, wcalls, destroys>>

\* The call returns: the locals of get() are gone.
WinReturn(t) ==
    /\ wpc' = [wpc EXCEPT ![t] = "idle"]
    /\ wop' = [wop EXCEPT ![t] = "none"]
    /\ lock' = [lock EXCEPT ![t] = 0]
    /\ handle' = [handle EXCEPT ![t] = 0]

\* lock(): ffi::EnterCriticalSection(self.get())
EnterCriticalSection(t) ==
    /\ wpc[t] = "call" /\ wop[t] = "lock"
    /\ csOwner[handle[t]] = 0
    /\ csOwner' = [csOwner EXCEPT ![handle[t]] = t]
    /\ WinReturn(t)
    /\ UNCHANGED <<inner, live, freed, wcalls, destroys>>

\* try_lock(): ffi::TryEnterCriticalSection(self.get()) != 0
TryEnterCriticalSection(t) ==
    /\ wpc[t] = "call" /\ wop[t] = "try_lock"
    /\ IF csOwner[handle[t]] = 0
       THEN csOwner' = [csOwner EXCEPT ![handle[t]] = t]
       ELSE UNCHANGED csOwner
    /\ WinReturn(t)
    /\ UNCHANGED <<inner, live, freed, wcalls, destroys>>

\* unlock(): ffi::LeaveCriticalSection(self.get())
LeaveCriticalSection(t) ==
    /\ wpc[t] = "call" /\ wop[t] = "unlock"
    /\ csOwner' = [csOwner EXCEPT ![handle[t]] = 0]
    /\ WinReturn(t)
    /\ UNCHANGED <<inner, live, freed, wcalls, destroys>>

\* destroy() may be called when the mutex has no users: no thread is inside
\* a call that uses it and no thread holds it.
NoUsers ==
    /\ \A u \in WinThreads : wpc[u] \in {"idle", "swapped"}
    /\ \A h \in HandlesOrNull : csOwner[h] = 0

\* Faulty variant: the handle is read, and `inner` is left as it is.
destroy_swap_load_only(t) ==
    /\ wpc[t] = "idle"
    /\ NoUsers
    /\ destroys[t] < WinDestroys
    /\ destroys' = [destroys EXCEPT ![t] = destroys[t] + 1]
    /\ lock' = [lock EXCEPT ![t] = inner]
    /\ wop' = [wop EXCEPT ![t] = "destroy"]
    /\ wpc' = [wpc EXCEPT ![t] = "swapped"]
    /\ UNCHANGED <<inner, handle, live, freed, csOwner, wcalls>>

\* destroy(): let lock = self.inner.swap(0, SeqCst);
destroy_swap(t) ==
    /\ wpc[t] = "idle"
    /\ NoUsers
    /\ destroys[t] < WinDestroys
    /\ destroys' = [destroys EXCEPT ![t] = destroys[t] + 1]
    /\ lock' = [lock EXCEPT ![t] = inner]
    /\ inner' = 0
    /\ wop' = [wop EXCEPT ![t] = "destroy"]
    /\ wpc' = [wpc EXCEPT ![t] = "swapped"]
    /\ UNCHANGED <<handle, live, freed, csOwner, wcalls>>

\* destroy(): if lock != 0 { free_lock(lock) }
destroy_free_lock(t) ==
    /\ wpc[t] = "swapped"
    /\ IF lock[t] # 0
       THEN free_lock(lock[t])
       ELSE UNCHANGED <<live, freed, csOwner>>
    /\ WinReturn(t)
    /\ UNCHANGED <<inner, wcalls, destroys>>

otherThanWin == <<mutexVars, cvVars, cntVars, rwVars, testVars, barVars,
                  lockVars, rwFailVars, frobVars, seen, deadlineVars,
                  flagVars>>

NextWin ==
    \E t \in WinThreads :
        \/ \E op \in {"lock", "try_lock", "unlock"} :
               WinCall(t, op) /\ UNCHANGED otherThanWin
        \/ get_load(t) /\ UNCHANGED otherThanWin
        \/ get_init_lock(t) /\ UNCHANGED otherThanWin
        \/ get_cas(t) /\ UNCHANGED otherThanWin
        \/ get_free_lock(t) /\ UNCHANGED otherThanWin
        \/ get_reload(t) /\ UNCHANGED otherThanWin
        \/ EnterCriticalSection(t) /\ UNCHANGED otherThanWin
        \/ TryEnterCriticalSection(t) /\ UNCHANGED otherThanWin
        \/ LeaveCriticalSection(t) /\ UNCHANGED otherThanWin
        \/ destroy_swap(t) /\ UNCHANGED otherThanWin
        \/ destroy_free_lock(t) /\ UNCHANGED otherThanWin

\* MUTEX_INIT (inner = 0, nothing allocated), or Mutex::new(), which stores
\* the handle init_lock() returns.
InitWin ==
    /\ InitOthers
    /\ dur = [secs |-> 0, nanos |-> 0]
    /\ pc = [t \in AllThreads |-> "idle"]
    /\ test = "none"
    /\ num_threads = NumParties
    /\ inner \in {0, 1}
    /\ live = {inner} \ {0}

SpecWin == InitWin /\ [][NextWin]_vars

\* ===================================================================
\* The deadline of wait_timeout (sys/condvar.rs, #[cfg(unix)] mod imp)
\* ===================================================================
\* The integers of the model are 32 bits wide, so the times are small: the
\* clock reads at most two seconds and every sum stays below 2^31
\* nanoseconds.  No value is near the ends of i64, time_t or c_long.
NanosPerSec == 1000000000

\* What gettimeofday can store: tv_sec and tv_usec (0 <= tv_usec < 10^6).
NowSecs == {0, 1}
NowMicros == {0, 1, 999, 500000, 999999}

\* The durations the callers pass, in nanoseconds.
DurNanos == {-1000000000, -1, 0, 1, 999, 1000, 1001, 1000000, 100000000,
             147483647}

\* std::time::Duration { secs, nanos }, with 0 <= nanos < 10^9.
Duration_seconds(sec) == [secs |-> sec, nanos |-> 0]

Duration_microseconds(us) ==
    [secs |-> us \div 1000000, nanos |-> (us % 1000000) * 1000]

Duration_nanoseconds(ns) ==
    [secs |-> ns \div NanosPerSec, nanos |-> ns % NanosPerSec]

\* Duration + Duration
Duration_add(a, b) ==
    IF a.nanos + b.nanos >= NanosPerSec
    THEN [secs |-> a.secs + b.secs + 1,
          nanos |-> a.nanos + b.nanos - NanosPerSec]
    ELSE [secs |-> a.secs + b.secs, nanos |-> a.nanos + b.nanos]

\* Duration >= Duration
Duration_ge(a, b) ==
    a.secs > b.secs \/ (a.secs = b.secs /\ a.nanos >= b.nanos)

\* num_nanoseconds().unwrap(): the sums of the model fit.
num_nanoseconds(d) == d.secs * NanosPerSec + d.nanos

\* let abs = Duration::seconds(tv.tv_sec) +
\*           Duration::microseconds(tv.tv_usec) + dur;
abs_deadline(now, d) ==
    Duration_add(Duration_add(Duration_seconds(now.tv_sec),
                              Duration_microseconds(now.tv_usec)), d)

\* Faulty variant: the nanoseconds are split off with 10^6.
timespec_of_short(ns) ==
    [tv_sec |-> ns \div NanosPerSec, tv_nsec |-> ns % 1000000]

\* libc::timespec { tv_sec: ns / 1000000000, tv_nsec: ns % 1000000000 }
timespec_of(ns) ==
    [tv_sec |-> ns \div NanosPerSec, tv_nsec |-> ns % NanosPerSec]

\* assert!(dur >= Duration::nanoseconds(0));
wait_timeout_assert ==
    /\ dpc = "called"
    /\ dpc' = IF Duration_ge(dur, Duration_nanoseconds(0))
              THEN "asserted" ELSE "panicked"
    /\ UNCHANGED <<dur, tv, timeout>>

\* ffi::gettimeofday(&mut tv, 0)
wait_timeout_gettimeofday ==
    /\ dpc = "asserted"
    /\ \E sec \in NowSecs, us \in NowMicros :
           tv' = [tv_sec |-> sec, tv_usec |-> us]
    /\ dpc' = "timed"
    /\ UNCHANGED <<dur, timeout>>

\* let ns = abs.num_nanoseconds().unwrap() as u64; let timeout = ..;
wait_timeout_deadline ==
    /\ dpc = "timed"
    /\ timeout' = timespec_of(num_nanoseconds(abs_deadline(tv, dur)))
    /\ dpc' = "computed"
    /\ UNCHANGED <<dur, tv>>

\* ffi::pthread_cond_timedwait(self.inner.get(), mutex, &timeout)
wait_timeout_timedwait ==
    /\ dpc = "computed"
    /\ dpc' = "waiting"
    /\ UNCHANGED <<dur, tv, timeout>>

otherThanDeadline == <<mutexVars, cvVars, cntVars, rwVars, testVars, barVars,
                       lockVars, rwFailVars, frobVars, seen, winVars,
                       flagVars>>

NextDeadline ==
    \/ wait_timeout_assert /\ UNCHANGED otherThanDeadline
    \/ wait_timeout_gettimeofday /\ UNCHANGED otherThanDeadline
    \/ wait_timeout_deadline /\ UNCHANGED otherThanDeadline
    \/ wait_timeout_timedwait /\ UNCHANGED otherThanDeadline

\* wait_timeout is called with some duration.
InitDeadline ==
    /\ InitOthers
    /\ pc = [t \in AllThreads |-> "idle"]
    /\ test = "none"
    /\ num_threads = NumParties
    /\ inner = 0
    /\ live = {}
    /\ \E ns \in DurNanos : dur = Duration_nanoseconds(ns)

SpecDeadline == InitDeadline /\ [][NextDeadline]_vars

\* ===================================================================
\* The poison helper (poison.rs)
\* ===================================================================
\* Flag { failed }, and Guard { flag: &mut bool, failing }: the Guard borrows
\* the Flag mutably, so one Guard is live at a time.

\* task::failing() of a thread that uses the Flag.
flag_failing(t) == ppanic[t] # "none"

\* Flag::borrow: Guard { flag: &mut self.failed, failing: failing() }
Flag_borrow(t) ==
    /\ ppc[t] = "out"
    /\ holder = 0
    /\ holder' = t
    /\ gFailing' = flag_failing(t)
    /\ ppc' = [ppc EXCEPT ![t] = "in"]
    /\ UNCHANGED <<flagFailed, ppanic>>

\* Guard::check: if *self.flag { panic!("poisoned ..") }
Guard_check(t) ==
    /\ ppc[t] = "in"
    /\ IF flagFailed
       THEN /\ ppanic' = [ppanic EXCEPT ![t] = "poisoned"]
            /\ ppc' = [ppc EXCEPT ![t] = "unwinding"]
       ELSE /\ ppc' = [ppc EXCEPT ![t] = "checked"]
            /\ UNCHANGED ppanic
    /\ UNCHANGED <<flagFailed, holder, gFailing>>

\* The code that runs between borrow and done panics.
FlagPanicInside(t) ==
    /\ ppc[t] \in {"in", "checked"}
    /\ ~flag_failing(t)
    /\ ppanic' = [ppanic EXCEPT ![t] = "user"]
    /\ ppc' = [ppc EXCEPT ![t] = "unwinding"]
    /\ UNCHANGED <<flagFailed, holder, gFailing>>

\* The thread panics while it has no Guard; the destructors it unwinds may
\* borrow the Flag.
FlagPanicOutside(t) ==
    /\ ppc[t] = "out"
    /\ ~flag_failing(t)
    /\ ppanic' = [ppanic EXCEPT ![t] = "elsewhere"]
    /\ UNCHANGED <<flagFailed, holder, gFailing, ppc>>

\* Faulty variant: every failure seen by done sets the flag.
Guard_done_any_failure(t) ==
    /\ ppc[t] \in {"in", "checked", "unwinding"}
    /\ IF flag_failing(t)
       THEN flagFailed' = TRUE
       ELSE UNCHANGED flagFailed
    /\ holder' = 0
    /\ ppc' = [ppc EXCEPT ![t] = "out"]
    /\ UNCHANGED <<gFailing, ppanic>>

\* Guard::done: if !self.failing && failing() { *self.flag = true }
Guard_done(t) ==
    /\ ppc[t] \in {"in", "checked", "unwinding"}
    /\ IF ~gFailing /\ flag_failing(t)
       THEN flagFailed' = TRUE
       ELSE UNCHANGED flagFailed
    /\ holder' = 0
    /\ ppc' = [ppc EXCEPT ![t] = "out"]
    /\ UNCHANGED <<gFailing, ppanic>>

\* A failed task is gone; a new one takes its place.
FlagSpawn(t) ==
    /\ ppc[t] = "out"
    /\ flag_failing(t)
    /\ ppanic' = [ppanic EXCEPT ![t] = "none"]
    /\ UNCHANGED <<flagFailed, holder, gFailing, ppc>>

otherThanFlag == <<mutexVars, cvVars, cntVars, rwVars, testVars, barVars,
                   lockVars, rwFailVars, frobVars, seen, winVars,
                   deadlineVars>>

NextFlag ==
    \E t \in FlagThreads :
        \/ Flag_borrow(t) /\ UNCHANGED otherThanFlag
        \/ Guard_check(t) /\ UNCHANGED otherThanFlag
        \/ FlagPanicInside(t) /\ UNCHANGED otherThanFlag
        \/ FlagPanicOutside(t) /\ UNCHANGED otherThanFlag
        \/ Guard_done(t) /\ UNCHANGED otherThanFlag
        \/ FlagSpawn(t) /\ UNCHANGED otherThanFlag

SpecFlag == Init /\ [][NextFlag]_vars

\* ===================================================================
\* Properties
\* ===================================================================

\* The threads whose live guard of m currently stands for the raw mutex: a
\* guard lent to a condvar wait does not while its owner is blocked.
Holders(m) ==
    {t \in Threads : guard[t].m = m /\ pc[t] \notin {"waiting", "woken"}}

\* C1: mutual exclusion.  For every Mutex and StaticMutex at most one live
\* guard holds the raw mutex, under any interleaving of lock, try_lock, guard
\* drop and condvar wait / wait_timeout.
C1_MutualExclusion == \A m \in Mutexes : Cardinality(Holders(m)) <= 1

\* One thread holds a guard of a mutex while another thread's guard of the
\* same mutex is lent to a condvar wait.
C1_Witness ==
    \E t \in Threads, u \in Threads :
        /\ t # u
        /\ guard[t].m # NoMutex
        /\ guard[t].m = guard[u].m
        /\ pc[t] = "holding"
        /\ pc[u] = "waiting"

\* C2: no lost updates.  When every thread has finished its Iters iterations
\* of { lock; read CNT; write CNT + 1; drop }, CNT = NumThreads * Iters.
C2_NoLostUpdates ==
    (\A t \in Threads : iters[t] = Iters) => cnt = NumThreads * Iters

\* Every thread has finished the workload and released the mutex.
C2_Witness ==
    /\ \A t \in Threads : iters[t] = Iters /\ pc[t] = "idle"
    /\ owner[CntMutex] = 0

\* C3: poisoning is sticky.  In every step: the poison flag is never reset;
\* a failing thread's guard of a Mutex is dropped only with the flag set
\* afterwards; and a lock() / try_lock() that has acquired the raw mutex of
\* a poisoned Mutex leaves the guard constructor by panicking.
C3_PoisonSticky ==
    [][\A m \in PoisonMutexes :
          /\ failed[m] => failed'[m]
          /\ \A t \in Threads :
               /\ (failing(t) /\ guard[t].m = m /\ guard'[t] = NoGuard)
                     => failed'[m]
               /\ (pc[t] = "acquired" /\ lk[t] = m /\ failed[m]
                     /\ pc'[t] # "acquired")
                     => (pc'[t] = "unwinding" /\ panic'[t] = "poisoned")]_vars

\* A thread has failed inside the critical section and is gone, and another
\* thread's later acquisition has reported the poisoning.
C3_Witness ==
    \E t \in Threads, u \in Threads :
        /\ panic[t] = "user" /\ pc[t] = "dead"
        /\ panic[u] = "poisoned"

\* C4: a poisoned acquisition fails while it holds the raw mutex, with a
\* live guard, and once the failure has unwound the raw mutex is unlocked by
\* it: a thread that is gone owns no raw mutex.
C4_PoisonedAcquireReleases ==
    \A t \in Threads :
        panic[t] = "poisoned" =>
            \/ /\ pc[t] \in {"unwinding", "unlocking"}
               /\ guard[t].m \in PoisonMutexes
               /\ owner[guard[t].m] = t
            \/ /\ pc[t] = "dead"
               /\ guard[t] = NoGuard
               /\ \A m \in Mutexes : owner[m] # t

\* A poisoned acquisition has failed and unwound, and another thread has
\* locked the same mutex after it.
C4_Witness ==
    \E t \in Threads, u \in Threads :
        /\ panic[t] = "poisoned" /\ pc[t] = "dead"
        /\ u # t
        /\ \E m \in PoisonMutexes : failed[m] /\ owner[m] = u

\* C5: in every step in which a failing thread releases the raw mutex of a
\* Mutex, the poison flag of that Mutex is already set.
C5_FlagBeforeRelease ==
    [][\A m \in PoisonMutexes : \A t \in Threads :
          (failing(t) /\ owner[m] = t /\ owner'[m] # t) => failed[m]]_vars

\* A thread that failed in the critical section has released the raw mutex,
\* which is unlocked and poisoned.
C5_Witness ==
    \E t \in Threads, m \in PoisonMutexes :
        /\ panic[t] = "user" /\ pc[t] = "dead"
        /\ owner[m] = 0
        /\ failed[m]

\* C6: RWLock exclusion.  At most one write guard is live, and while one is
\* live no read guard is.
C6_RWExclusion ==
    /\ \A t \in RWThreads : wg[t] <= 1
    /\ \A t \in RWThreads, u \in RWThreads : (wg[t] > 0 /\ wg[u] > 0) => t = u
    /\ (\E t \in RWThreads : wg[t] > 0) => \A u \in RWThreads : rg[u] = 0

\* A write guard is live while another thread is inside read().
C6_Witness ==
    \E t \in RWThreads, u \in RWThreads :
        wg[t] = 1 /\ u # t /\ rwCall[u] = "read"

WriterLive == \E u \in RWThreads : wg[u] > 0
ReaderLive == \E u \in RWThreads : rg[u] > 0
WriterWaiting == \E u \in RWThreads : rwCall[u] = "write"

\* C7: with no writer holding or waiting a read() can return whatever read
\* guards are live; a write() cannot return while a read guard is live; and
\* while a write guard is live no read() and no write() can return.
C7_RWBlocking ==
    \A t \in RWThreads :
        /\ (rwCall[t] = "read" /\ ~WriterLive /\ ~WriterWaiting)
              => ENABLED RWLock_read(t)
        /\ (rwCall[t] = "write" /\ ReaderLive) => ~ENABLED RWLock_write(t)
        /\ WriterLive => ~ENABLED RWLock_read(t) /\ ~ENABLED RWLock_write(t)

\* Two threads hold read guards at once while a third is inside write().
C7_Witness ==
    \E t \in RWThreads, u \in RWThreads, w \in RWThreads :
        t # u /\ rg[t] > 0 /\ rg[u] > 0 /\ rwCall[w] = "write"

\* C8: once a wait with a guard of one mutex has returned, no wait or
\* wait_timeout with a guard of another mutex gets past the binding check.
C8_SecondMutexRejected ==
    \A t \in Threads :
        pc[t] \in {"verified", "waiting", "woken"} => cvDone \subseteq {guard[t].m}

\* C9: a wait or wait_timeout raises the two-mutexes error only if guards of
\* more than one mutex have been used with the condvar.
C9_SameMutexAccepted ==
    \A t \in Threads : panic[t] = "two_mutexes" => Cardinality(cvUsed) > 1

\* C10: while a thread is blocked in wait / wait_timeout it does not hold the
\* raw mutex of its guard, and every live guard whose owner is not blocked
\* there holds it: in particular the caller holds it again whenever wait or
\* wait_timeout has returned, with either result.
C10_WaitReleasesAndReacquires ==
    \A t \in Threads :
        /\ pc[t] = "waiting" => owner[guard[t].m] # t
        /\ (guard[t].m # NoMutex /\ pc[t] \notin {"waiting", "woken"})
              => owner[guard[t].m] = t

\* A wait_timeout has timed out and returned false, and the caller holds the
\* raw mutex again.
C10_Witness ==
    \E t \in Threads :
        /\ pc[t] = "holding"
        /\ ret[t] = "false"
        /\ owner[guard[t].m] = t

\* C11: no lost wakeup.  In tests::notify_one and tests::notify_all the main
\* thread locks the mutex, spawns the child and waits; the child locks the
\* same mutex and notifies.  Under fair scheduling the main thread's wait
\* returns in every interleaving.
C11_NoLostWakeup ==
    (test \in {"notify_one", "notify_all"}) => <>(Op(Main) \in {"drop", "end"})

\* The main thread's wait has returned, woken by the child's notify_one, and
\* the child has run to its end.
C11_Witness ==
    /\ test = "notify_one"
    /\ Op(Main) = "drop"
    /\ wake[Main] = "notify_one"
    /\ Op(Child) = "end"

\* C12: a wait_timeout whose deadline elapsed returns false and only such a
\* one does; a wait_timeout woken by a notification returns true; so the
\* first assertion of tests::wait_timeout fails only after a spurious wakeup
\* and the second only when the deadline elapsed before the child's notify.
C12_WaitTimeoutResult ==
    \A t \in Threads :
        guard[t].m # NoMutex =>
            /\ wake[t] = "timeout" => ret[t] = "false"
            /\ ret[t] = "false" => wake[t] = "timeout"
            /\ (wake[t] \in Notified /\ wcall[t] = "wait_timeout")
                  => ret[t] = "true"
            /\ (wake[t] \in Notified /\ ret[t] # "none") => ret[t] = "true"
            /\ panic[t] = "assert" =>
                  \/ Op(t) = "assert_false" /\ wake[t] = "spurious"
                  \/ Op(t) = "assert_true" /\ wake[t] = "timeout"

\* tests::wait_timeout has run to its end with both assertions passed: the
\* first call returned false, the second, woken by the child, true.
C12_Witness ==
    /\ test = "wait_timeout"
    /\ Op(Main) = "end"
    /\ pc[Main] = "idle"
    /\ wake[Main] = "notify_one"
    /\ Op(Child) = "end"

NobodyBlocked == \A w \in AllThreads : pc[w] # "waiting"

\* C13: notifications are not buffered.  A notify_one or notify_all made
\* while no thread is blocked changes nothing in the mutexes, the condvar and
\* the threads; and the wait_timeout that follows the two notifications of
\* tests::smoke is never woken by them: it returns true only after a spurious
\* wakeup.
C13_NotBuffered ==
    /\ [][\A t \in Threads :
             (NobodyBlocked /\ (CvNotifyOne(t) \/ CvNotifyAll(t)))
                => UNCHANGED <<mutexVars, cvVars, wake>>]_vars
    /\ [](test = "smoke" =>
             \A t \in Threads :
                 /\ wake[t] \notin Notified
                 /\ ret[t] = "true" => wake[t] = "spurious")

\* After the two notifications of tests::smoke a wait_timeout has timed out
\* and returned false.
C13_Witness ==
    /\ test = "smoke"
    /\ pc[Main] = "holding"
    /\ Op(Main) = "drop"
    /\ ret[Main] = "false"
    /\ wake[Main] = "timeout"

\* The threads a step unblocks.
Unblocked == {w \in AllThreads : pc[w] = "waiting" /\ pc'[w] # "waiting"}

\* C14: a notify_one unblocks at most one of the threads blocked on the
\* condvar, however many are blocked.
C14_NotifyOneWakesAtMostOne ==
    [][\A t \in SysThreads : SysNotifyOne(t) => Cardinality(Unblocked) <= 1]_vars

\* Two threads were blocked when a notify_one was made: it has unblocked one
\* of them and passed over the other, which is still blocked.
C14_Witness ==
    \E w \in SysThreads, v \in SysThreads :
        /\ w # v
        /\ pc[w] = "woken" /\ wake[w] = "notify_one"
        /\ pc[v] = "waiting" /\ wake[v] = "passed_over"

RECURSIVE SumTo(_, _)
SumTo(f, n) == IF n = 0 THEN 0 ELSE f[n] + SumTo(f, n - 1)

\* The calls of Barrier::wait made so far, and those that have returned.
Calls == SumTo(calls, NumParties)
Returns == SumTo(rets, NumParties)

\* C16: no call of wait() returns while its round has fewer than num_threads
\* calls, and once num_threads calls have been made, num_threads calls
\* return (under fair scheduling).
C16_RendezvousCompletes ==
    /\ [](Returns <= num_threads * (Calls \div num_threads))
    /\ (Calls >= num_threads) ~> (Returns >= num_threads)

\* C17: the barrier is reusable.  After a first rendezvous, once the calls of
\* a second round have been made they all return as well (under fair
\* scheduling).
C17_Reusable ==
    (generation_id >= 1 /\ Calls >= 2 * num_threads)
        ~> (Returns >= 2 * num_threads)

\* The threads in the releaser branch, before and after the release.
Releasers == {t \in Parties : bpc[t] \in {"release", "released"}}

\* C18: one releaser per rendezvous.  The releaser branch is entered by the
\* party that makes count reach num_threads, while the num_threads - 1 other
\* parties of its generation are in the waiting branch; no two releasers
\* belong to one generation; and a party leaves the waiting branch only
\* after the reset of count and the increment of generation_id.
C18_OneReleaser ==
    /\ \A t \in Releasers, u \in Releasers :
           local_gen[t] = local_gen[u] => t = u
    /\ \A t \in Parties :
           bpc[t] = "release" =>
               /\ count = num_threads
               /\ local_gen[t] = generation_id
               /\ Cardinality({u \in Parties :
                     bpc[u] = "loop" /\ local_gen[u] = generation_id})
                    = num_threads - 1
    /\ \A t \in Parties :
           bpc[t] = "waited" =>
               /\ local_gen[t] < generation_id
               /\ count < num_threads

\* A waiter of the first rendezvous leaves the loop after the release.
C18_Witness ==
    \E t \in Parties, u \in Parties :
        /\ t # u
        /\ bpc[t] = "waited" /\ local_gen[t] = 0
        /\ generation_id = 1 /\ count = 0
        /\ rets[u] = 1

\* C19: whenever the barrier's mutex is not held, 0 <= count < num_threads;
\* count is reset to 0 and generation_id changes only in the releaser's
\* step, which finds count = num_threads, holds the mutex and adds exactly 1
\* to generation_id.
C19_BarrierState ==
    /\ [](owner[BarMutex] = 0 => (0 <= count /\ count < num_threads))
    /\ [][((count' = 0 /\ count # 0) \/ generation_id' # generation_id) =>
             /\ count = num_threads
             /\ count' = 0
             /\ generation_id' = generation_id + 1
             /\ owner[BarMutex] # 0
             /\ owner' = owner]_vars

\* A rendezvous is over: every party has returned, the mutex is free, count
\* is 0 again and generation_id is 1.
C19_Witness ==
    /\ generation_id = 1
    /\ count = 0
    /\ owner[BarMutex] = 0
    /\ Returns = num_threads

\* C20: no call of wait() returns before num_threads threads have called
\* wait(), spurious wakeups included.
C20_BeforePrecedesAfter ==
    \A t \in Parties :
        rets[t] >= 1 =>
            Cardinality({u \in Parties : calls[u] >= 1}) >= num_threads

\* A waiter that had a spurious wakeup has returned, and so has every other
\* party of the rendezvous.
C20_Witness ==
    \E t \in Parties :
        /\ wake[t] = "spurious"
        /\ rets[t] = 1
        /\ Returns = num_threads

\* A call on a Mutex whose poison flag is set.
Poisoned(m) == Kind(m) = "Mutex" /\ failed[m]

\* C21: try_lock never blocks.  A thread that calls try_lock on a Mutex or a
\* StaticMutex gets its result in the same step whatever the state of the raw
\* mutex; the result is None exactly when the raw mutex is held; a None
\* leaves the raw mutexes, the poison flags, the guards and the threads as
\* they were; and a call that is not None locks the raw mutex and, unless the
\* mutex is poisoned, its guard constructor returns the guard.
C21_TryLockNeverBlocks ==
    /\ [](\A t \in Threads, m \in Mutexes :
             pc[t] = "idle" => ENABLED Mutex_try_lock(t, m))
    /\ [][\A t \in Threads, m \in Mutexes :
             LkTryLock(t, m) =>
                 /\ tried'.res = "None" <=> owner[m] # 0
                 /\ tried'.res = "None" => UNCHANGED <<mutexVars, cvVars>>
                 /\ tried'.res = "Some" =>
                       /\ owner'[m] = t
                       /\ pc'[t] = "acquired"
                       /\ failed' = failed]_vars
    /\ [][\A t \in Threads :
             (pc[t] = "acquired" /\ ~Poisoned(lk[t]) /\ pc'[t] # "acquired")
                 => /\ pc'[t] = "holding"
                    /\ guard'[t].m = lk[t]
                    /\ panic'[t] = "none"]_vars

\* A try_lock has returned None to a thread while another thread holds the
\* raw mutex under a guard; the caller is where it was.
C21_Witness ==
    /\ tried.res = "None"
    /\ pc[tried.t] = "idle"
    /\ \E u \in Threads :
           /\ u # tried.t
           /\ owner[tried.m] = u
           /\ guard[u].m = tried.m
           /\ pc[u] = "holding"

\* A thread is running user code in which it may call try_read / try_write.
CanCallTryRead(t) ==
    RwRunning(t) /\ rwCall[t] = "none" /\ wg[t] = 0 /\ rg[t] < MaxReads

CanCallTryWrite(t) ==
    RwRunning(t) /\ rwCall[t] = "none" /\ wg[t] = 0 /\ rg[t] = 0

\* C22: try_read and try_write never block: the caller gets its result in
\* the same step whatever the state of the lock.  try_write returns None
\* exactly when a read guard or a write guard is live, which is when write()
\* would block, and a write guard otherwise.  try_read returns None when a
\* write guard is live and a read guard when no writer holds or waits for the
\* lock.  A None leaves the lock and the guards as they were.
C22_TryReadWriteNeverBlock ==
    /\ [](\A t \in RWThreads :
             /\ CanCallTryRead(t) => ENABLED RWLock_try_read(t)
             /\ CanCallTryWrite(t) => ENABLED RWLock_try_write(t)
             /\ (rwCall[t] = "write" /\ (WriterLive \/ ReaderLive))
                   => ~ENABLED RWLock_write(t))
    /\ [][\A t \in RWThreads :
             /\ RtTryWrite(t) =>
                   /\ tried'.res = "None" <=> (WriterLive \/ ReaderLive)
                   /\ tried'.res = "Some" =>
                         wg'[t] = wg[t] + 1 /\ rwExcl' /\ rg' = rg
             /\ RtTryRead(t) =>
                   /\ WriterLive => tried'.res = "None"
                   /\ (~WriterLive /\ ~WriterWaiting) => tried'.res = "Some"
                   /\ tried'.res = "Some" =>
                         rg'[t] = rg[t] + 1 /\ rwShared' = rwShared + 1 /\ wg' = wg
             /\ ((RtTryWrite(t) \/ RtTryRead(t)) /\ tried'.res = "None")
                   => UNCHANGED rwVars]_vars

\* A try_write has returned None to a thread without guards while another
\* thread holds a read guard, and a third thread is blocked inside write().
C22_Witness ==
    /\ tried.call = "try_write"
    /\ tried.res = "None"
    /\ rg[tried.t] = 0 /\ wg[tried.t] = 0 /\ rwCall[tried.t] = "none"
    /\ \E u \in RWThreads, w \in RWThreads :
           /\ u # tried.t /\ rg[u] > 0
           /\ w # tried.t /\ rwCall[w] = "write"
    /\ ~rwExcl

\* The guard constructor of thread t's lock() / try_lock() returns the guard.
GuardReturned(t) == \E s \in Slots : MutexGuard_new(t, s) /\ pc'[t] = "holding"

\* A thread's lock() / try_lock() has locked the raw mutex of a poisoned
\* Mutex and is about to run the guard constructor.
AcquiredPoisoned(t) ==
    pc[t] = "acquired" /\ lk[t] \in PoisonMutexes /\ failed[lk[t]]

C24_StaticMutexPoisons ==
    \A t \in Threads :
        (Kind(guard[t].m) = "StaticMutex" /\ guard[t].m \in failedIn)
            => (pc[t] # "holding" /\ failing(t))

\* The read guards that are live.
ReadGuards == SumTo(rg, NumRWThreads)

C26_RWLockPoisons ==
    \A t \in RWThreads :
        ("write" \in rwFailedIn /\ RwRunning(t)) => (rg[t] = 0 /\ wg[t] = 0)

\* Thread t stands for the raw mutex m: it has a live guard of m and is not
\* blocked in a condvar wait with it, or it is inside lock() / try_lock()
\* between the raw lock and the guard constructor that follows it.
StandsFor(t, m) ==
    \/ guard[t].m = m /\ pc[t] \notin {"waiting", "woken"}
    \/ pc[t] = "acquired" /\ lk[t] = m

\* C27: the guard is the sole release mechanism, on every exit path.  The raw
\* mutex is held, and by thread t, exactly when t has a live guard of it and
\* is not blocked in a condvar wait (the guard constructor of a lock() or
\* try_lock() that has just locked it counts as the guard); a thread that is
\* back in user code without a guard, or gone after a failure, holds no raw
\* mutex; the raw mutex is released only by the drop of the guard or by a
\* wait with it; and the drop of a guard, failing or not, finds the raw
\* mutex locked by the guard's thread and leaves it unlocked.
C27_GuardSoleRelease ==
    /\ [](\A m \in Mutexes, t \in Threads : owner[m] = t <=> StandsFor(t, m))
    /\ [](\A m \in Mutexes : owner[m] = 0 \/ owner[m] \in Threads)
    /\ [](\A t \in Threads :
             pc[t] \in {"idle", "dead"} =>
                 guard[t] = NoGuard /\ \A m \in Mutexes : owner[m] # t)
    /\ [][\A t \in Threads, m \in Mutexes :
             (owner[m] = t /\ owner'[m] # t) =>
                 /\ owner'[m] = 0
                 /\ guard[t].m = m
                 /\ \/ guard'[t] = NoGuard
                    \/ guard'[t] = guard[t] /\ pc'[t] = "waiting"]_vars
    /\ [][\A t \in Threads :
             (guard[t] # NoGuard /\ guard'[t] = NoGuard) =>
                 /\ owner[guard[t].m] = t
                 /\ owner'[guard[t].m] = 0]_vars

\* A thread that failed under a guard of a StaticMutex is gone, its guard
\* unwound and the raw mutex unlocked by it; meanwhile another thread is
\* blocked in a wait with a live guard of a mutex that is unlocked.
C27_Witness ==
    \E t \in Threads, u \in Threads :
        /\ pc[t] = "dead" /\ panic[t] = "user" /\ guard[t] = NoGuard
        /\ ~failed["M1"]
        /\ \A m \in Mutexes : owner[m] = 0
        /\ pc[u] = "waiting" /\ guard[u].m \in Mutexes

\* C28: the poison flag is set only by the destructor of a guard whose
\* thread is unwinding.  The flag of a Mutex goes from false to true only in
\* the first statement of the drop of a guard of that Mutex by a failing
\* thread that holds the raw mutex; a flag that is set belongs to a Mutex
\* under a guard of which a thread has failed; as long as no thread has
\* failed under a guard, no flag is set and no thread gets a poisoning error;
\* and every lock() / try_lock() that has locked a mutex under whose guards
\* no thread has failed returns its guard, after any number of cycles.
C28_FlagOnlyOnFailure ==
    /\ [](\A m \in PoisonMutexes : failed[m] => m \in failedIn)
    /\ [](failedIn = {} => \A t \in Threads : panic[t] = "none")
    /\ [][\A m \in PoisonMutexes :
             (~failed[m] /\ failed'[m]) =>
                 \E t \in Threads :
                     /\ failing(t)
                     /\ guard[t].m = m
                     /\ owner[m] = t
                     /\ pc[t] = "unwinding" /\ pc'[t] = "unlocking"]_vars
    /\ [][\A t \in Threads :
             (pc[t] = "acquired" /\ lk[t] \notin failedIn /\ pc'[t] # "acquired")
                 => /\ pc'[t] = "holding"
                    /\ panic'[t] = "none"]_vars

\* No thread has ever failed; one thread has been through a cycle of
\* try_lock and drop on the Mutex, and after it another thread has locked
\* the Mutex and holds its guard; the flag is not set.
C28_Witness ==
    /\ failedIn = {}
    /\ tried.call = "try_lock" /\ tried.res = "Some"
    /\ tried.m \in PoisonMutexes
    /\ pc[tried.t] = "idle"
    /\ ~failed[tried.m]
    /\ \E u \in Threads :
           u # tried.t /\ pc[u] = "holding" /\ guard[u].m = tried.m

\* C29: tests::frob terminates.  With every thread running its iterations of
\* write-and-drop or read-and-drop in any mix, some thread can take a step as
\* long as one of them has iterations left (no deadlock), and under fair
\* scheduling every thread completes all its iterations, the lock ending up
\* free.
C29_FrobTerminates ==
    /\ []((\E t \in RWThreads : ~FrobDone(t)) => ENABLED NextFrob)
    /\ <>(/\ \A t \in RWThreads : FrobDone(t)
          /\ ~rwExcl
          /\ rwShared = 0)

\* Every thread has completed its iterations, some of which took a write
\* guard and some a read guard, and the lock is free.
C29_Witness ==
    /\ \A t \in RWThreads : FrobDone(t)
    /\ frobKinds = {"read", "write"}
    /\ ~rwExcl /\ rwShared = 0

\* The thread's verify has returned and its wait has not yet.
PastVerify(t) == pc[t] \in {"verified", "waiting", "woken"}

\* C30: the binding is permanent and single-valued.  StaticCondvar.mutex
\* changes only from 0 to a non-zero identity, in the compare_and_swap of a
\* caller whose identity it then is, so at most once; a caller gets past
\* verify only with the bound identity and panics in it only with another
\* one; and while one thread is past verify in its wait, the verify of every
\* other thread whose guard is of a different mutex ends in the two-mutexes
\* error.
C30_BindingPermanent ==
    /\ [][cvMutex' # cvMutex =>
             /\ cvMutex = 0
             /\ cvMutex' # 0
             /\ \E t \in Threads :
                    /\ pc[t] = "loaded" /\ pc'[t] = "verified"
                    /\ cvMutex' = verify_addr(t)]_vars
    /\ [](\A t \in Threads :
             /\ PastVerify(t) => (cvMutex # 0 /\ cvMutex = verify_addr(t))
             /\ (panic[t] = "two_mutexes" /\ pc[t] = "unwinding")
                   => (cvMutex # 0 /\ cvMutex # verify_addr(t)))
    /\ [][\A t \in Threads, u \in Threads :
             (/\ PastVerify(t)
              /\ guard[u].m # guard[t].m
              /\ pc[u] = "loaded" /\ pc'[u] # "loaded")
                => (panic'[u] = "two_mutexes" /\ pc'[u] = "unwinding")]_vars

\* Two threads with guards of different mutexes were in verify at the same
\* time, both having loaded 0: the compare_and_swap of one has installed its
\* identity, and the other has got the two-mutexes error.
C30_Witness ==
    \E t \in Threads, u \in Threads :
        /\ t # u
        /\ seen[t] = 0 /\ seen[u] = 0
        /\ pc[t] = "verified"
        /\ cvMutex = verify_addr(t)
        /\ panic[u] = "two_mutexes" /\ pc[u] = "unwinding"
        /\ guard[u].m # guard[t].m

\* The mutex of thread t's guard was poisoned while t was inside wait or
\* wait_timeout: t has been unblocked and has the mutex still to lock again.
WokenPoisoned(t) ==
    /\ pc[t] = "woken"
    /\ guard[t].m \in PoisonMutexes
    /\ failed[guard[t].m]

\* The wait or wait_timeout of thread t returns normally: t is not failing,
\* it has the raw mutex locked and its guard is the one it passed in.
WaitReturnsNormally(t) ==
    /\ sys_condvar_wait_return(t)
    /\ pc'[t] = "holding"
    /\ panic'[t] = "none"
    /\ guard'[t] = guard[t]
    /\ owner'[guard[t].m] = t

\* C31: wait and wait_timeout do not look at the poison flag again.  When the
\* mutex was poisoned by another thread while the caller was blocked, the
\* call waits for the raw mutex only, and its return is always a normal one:
\* the caller is not failing, holds the mutex and keeps its guard.
C31_WaitDoesNotRevalidate ==
    \A t \in Threads :
        WokenPoisoned(t) =>
            /\ ~failing(t)
            /\ (owner[guard[t].m] = 0 => ENABLED WaitReturnsNormally(t))
            /\ ~ENABLED (sys_condvar_wait_return(t) /\ ~WaitReturnsNormally(t))

\* A wait_timeout has timed out and returned false to a caller that holds the
\* guard of a mutex another thread has poisoned in the meantime.
C31_Witness ==
    \E t \in Threads, u \in Threads :
        /\ pc[t] = "holding" /\ ~failing(t) /\ ret[t] = "false"
        /\ guard[t].m \in PoisonMutexes /\ failed[guard[t].m]
        /\ guard[t].m \in cvDone
        /\ owner[guard[t].m] = t
        /\ u # t /\ panic[u] = "user"

\* A waiter of an earlier round: its call recorded a generation that is no
\* longer the current one, and it has not left the while loop yet.
EarlierRoundWaiter(t) == bpc[t] = "loop" /\ local_gen[t] # generation_id

\* C32: the rounds of a Barrier do not interfere.  A call is counted in one
\* step, once, in the generation that is current at that step, and the
\* generation it recorded stays with it until it returns; a waiter leaves the
\* loop only because the generation has advanced, never because of count; a
\* waiter of an earlier round that has the mutex again leaves the loop and
\* does not wait again, whatever later calls have added to count; a waiter
\* of an earlier round ends only by leaving the loop, not failing, and its
\* call then returns; and under fair scheduling no waiter of an earlier round
\* is left in the end.
C32_RoundsDoNotInterfere ==
    /\ [][\A t \in Parties :
             /\ local_gen'[t] # local_gen[t] =>
                    /\ bpc[t] = "count" /\ bpc'[t] \in {"loop", "release"}
                    /\ local_gen'[t] = generation_id
                    /\ generation_id' = generation_id
             /\ (bpc[t] = "count" /\ bpc'[t] \in {"loop", "release"}) =>
                    /\ count' = count + 1
                    /\ local_gen'[t] = generation_id
             /\ (bpc[t] = "loop" /\ bpc'[t] = "waited") =>
                    /\ local_gen[t] < generation_id
                    /\ count < num_threads]_vars
    /\ [][count' > count =>
             \E t \in Parties :
                 /\ bpc[t] = "count" /\ bpc'[t] \in {"loop", "release"}
                 /\ \A u \in Parties \ {t} : bpc'[u] = bpc[u]]_vars
    /\ [](\A t \in Parties :
             (EarlierRoundWaiter(t) /\ pc[t] = "holding") =>
                 /\ ENABLED BarLoopExit(t)
                 /\ ~ENABLED BarCvWait(t))
    /\ [][\A t \in Parties :
             (EarlierRoundWaiter(t) /\ ~EarlierRoundWaiter(t)') =>
                 (bpc'[t] = "waited" /\ ~failing(t)')]_vars
    /\ [][\A t \in Parties :
             (bpc[t] = "waited" /\ bpc'[t] # "waited") =>
                 (bpc'[t] = "out" /\ rets'[t] = rets[t] + 1)]_vars
    /\ <>[](\A t \in Parties : ~EarlierRoundWaiter(t) /\ bpc[t] # "waited")

\* A party released from the first round has called wait() again and has
\* been counted in the second round, while a waiter of the first round has
\* been unblocked but has not locked the mutex again yet.
C32_Witness ==
    \E t \in Parties, u \in Parties :
        /\ t # u
        /\ pc[t] = "woken" /\ EarlierRoundWaiter(t) /\ local_gen[t] = 0
        /\ rets[u] = 1 /\ calls[u] = 2 /\ local_gen[u] = 1
        /\ generation_id = 1 /\ count = 1

\* C33: Barrier liveness.  When as many threads as the barrier has parties
\* each call wait() MaxCalls times, then under fair scheduling every one of
\* these calls eventually returns.
C33_BarrierLiveness ==
    <>(num_threads = NumParties => \A t \in Parties : rets[t] = MaxCalls)

\* C34: Barrier::wait never runs into the two-mutexes error of its condvar.
\* Every guard a party passes to the wait of the barrier's condvar is a guard
\* of the barrier's own mutex, and no party fails in the binding check.
C34_BarrierPassesBinding ==
    \A t \in Parties :
        /\ bpc[t] = "loop" => guard[t].m = BarMutex
        /\ panic[t] # "two_mutexes"

\* The wait / wait_timeout call of thread t is rejected by verify.
WaitRejected(t) ==
    \E call \in {"wait", "wait_timeout"} :
        Condvar_wait(t, call) /\ panic'[t] = "two_mutexes"

\* Thread t is unwinding from a rejected wait to which it passed the guard of
\* a Mutex.
RejectedWith(t) == panic[t] = "two_mutexes" /\ guard[t].m \in PoisonMutexes

\* C35: a wait rejected with the two-mutexes error poisons the mutex of the
\* guard it was given.  The rejection leaves the binding of the condvar, the
\* guard and the raw mutex as they were and starts the unwinding; the
\* unwinding drops the guard, which finds the thread failing: the flag of the
\* mutex is set before the raw mutex is unlocked, and the drop ends with the
\* mutex unlocked and poisoned.
C35_RejectedWaitPoisons ==
    \A t \in Threads :
        /\ ~ENABLED (/\ WaitRejected(t)
                     /\ ~(/\ cvMutex' = cvMutex
                          /\ pc'[t] = "unwinding"
                          /\ guard' = guard
                          /\ owner' = owner))
        /\ (RejectedWith(t) /\ pc[t] = "unwinding") =>
               /\ owner[guard[t].m] = t
               /\ cvMutex \notin {0, guard[t].addr}
               /\ ENABLED MutexGuard_drop_flag(t)
               /\ ~ENABLED (/\ MutexGuard_drop_flag(t)
                            /\ ~(failed'[guard[t].m] /\ pc'[t] = "unlocking"))
        /\ (RejectedWith(t) /\ pc[t] = "unlocking") =>
               /\ owner[guard[t].m] = t
               /\ failed[guard[t].m]
               /\ ENABLED MutexGuard_drop_unlock(t)
               /\ ~ENABLED (/\ MutexGuard_drop_unlock(t)
                            /\ ~(/\ owner'[guard[t].m] = 0
                                 /\ failed'[guard[t].m]
                                 /\ guard'[t] = NoGuard))

\* A thread whose wait was rejected has set the flag of its Mutex and is
\* about to unlock it; the thread whose guard the condvar is bound to is
\* blocked in its wait, and nobody else has failed.
C35_Witness ==
    \E t \in Threads :
        /\ RejectedWith(t) /\ pc[t] = "unlocking"
        /\ failed[guard[t].m]
        /\ \A u \in Threads \ {t} : ~failing(u) /\ pc[u] = "waiting"
        /\ cvMutex # 0

\* The threads that have allocated a critical section in get() and have
\* neither installed nor freed it yet.
Allocating == {t \in WinThreads : wpc[t] \in {"cas", "free"}}

\* C36: the lazy initialization of a statically initialized raw mutex of
\* Windows is free of races.  While the mutex is in use, a handle once
\* installed stays; every call, of the winner and of the losers of the
\* compare-and-swap, passes the installed handle to the system, and that
\* handle is allocated; only the installed critical section is ever entered;
\* a handle is freed in get() by the thread that allocated it and lost, once,
\* and is never the installed one; and every allocated critical section is
\* the installed one or is still to be installed or freed by the thread that
\* allocated it.
C36_LazyInitRaceFree ==
    /\ [](\A t \in WinThreads :
             wpc[t] = "call" =>
                 /\ handle[t] # 0
                 /\ handle[t] = inner
                 /\ handle[t] \in live)
    /\ [](\A h \in HandlesOrNull : csOwner[h] # 0 => (h # 0 /\ h = inner))
    /\ [](\A t \in Allocating :
             /\ lock[t] \in live
             /\ wpc[t] = "free" => lock[t] # inner
             /\ \A u \in Allocating \ {t} : lock[u] # lock[t])
    /\ [](~DestroyStarted =>
             /\ live = ({inner} \ {0}) \cup {lock[t] : t \in Allocating}
             /\ freed[0] = 0
             /\ \A h \in Handles :
                    /\ freed[h] <= 1
                    /\ freed[h] = 1 => (h # inner /\ h \notin live))
    /\ [][(~DestroyStarted' /\ inner # 0) => inner' = inner]_vars
    /\ [][~DestroyStarted' =>
             \A h \in HandlesOrNull :
                 freed'[h] # freed[h] =>
                     \E t \in WinThreads :
                         /\ wpc[t] = "free" /\ wpc'[t] = "reload"
                         /\ lock[t] = h]_vars

\* Two threads have raced in their first calls: one has installed the handle
\* it allocated, the other has freed its own; both are about to pass the
\* installed handle to the system.
C36_Witness ==
    \E t \in WinThreads, u \in WinThreads :
        /\ t # u
        /\ wpc[t] = "call" /\ wpc[u] = "call"
        /\ lock[t] = inner /\ handle[t] = inner
        /\ lock[u] # 0 /\ lock[u] # inner /\ freed[lock[u]] = 1
        /\ handle[u] = inner
        /\ wcalls[t] = 1 /\ wcalls[u] = 1

\* C37: destroy frees the handle at most once.  The swap leaves 0 in `inner`
\* and gives the handle that was stored to one destroy call only; that call
\* frees it, once; a destroy call that finds 0 frees nothing; so no handle is
\* ever freed twice and the null handle is never freed.
C37_DestroyFreesOnce ==
    /\ [](\A h \in Handles : freed[h] <= 1)
    /\ [](freed[0] = 0)
    /\ [](\A t \in WinThreads :
             wpc[t] = "swapped" =>
                 /\ inner = 0
                 /\ lock[t] # 0 =>
                        /\ lock[t] \in live
                        /\ freed[lock[t]] = 0
                        /\ \A u \in WinThreads \ {t} : lock[u] # lock[t])
    /\ [][\A t \in WinThreads :
             (wpc[t] = "idle" /\ wpc'[t] = "swapped") =>
                 (lock'[t] = inner /\ inner' = 0 /\ freed' = freed)]_vars
    /\ [][\A t \in WinThreads :
             (wpc[t] = "swapped" /\ wpc'[t] # "swapped") =>
                 IF lock[t] = 0
                 THEN freed' = freed /\ live' = live
                 ELSE /\ freed' = [freed EXCEPT ![lock[t]] = 1]
                      /\ live' = live \ {lock[t]}]_vars

\* Concurrent and repeated destroy calls: one call has taken the handle out
\* of `inner` and has not freed it yet, while another thread is in its
\* second destroy call, which has found 0.
C37_Witness ==
    \E t \in WinThreads, u \in WinThreads :
        /\ t # u
        /\ wpc[t] = "swapped" /\ lock[t] # 0
        /\ wpc[u] = "swapped" /\ lock[u] = 0 /\ destroys[u] = 2

\* The time gettimeofday has stored and the duration of the call, in
\* nanoseconds.
NowNanos == tv.tv_sec * NanosPerSec + tv.tv_usec * 1000
DurationNanos == dur.secs * NanosPerSec + dur.nanos

DoneBy(t) == ppc[t] # "out" /\ ppc'[t] = "out"

\* C39: the poison helper sets its flag only for a failure that began while
\* the Guard was live.  done leaves the flag true exactly when it was true
\* already, or the thread was not failing when the Guard was borrowed and is
\* failing now; nothing but such a done changes the flag, and nothing ever
\* resets it; check panics when the flag is true and returns when it is
\* false.
C39_PoisonHelper ==
    /\ [][\A t \in FlagThreads :
             DoneBy(t) =>
                 (flagFailed' <=> (flagFailed \/ (~gFailing /\ flag_failing(t))))]_vars
    /\ [][flagFailed' # flagFailed =>
             \E t \in FlagThreads :
                 DoneBy(t) /\ ~gFailing /\ flag_failing(t)]_vars
    /\ [][flagFailed => flagFailed']_vars
    /\ [](\A t \in FlagThreads :
             ppc[t] = "in" =>
                 /\ ENABLED Guard_check(t)
                 /\ flagFailed =>
                        ~ENABLED (Guard_check(t) /\ ppanic'[t] # "poisoned")
                 /\ ~flagFailed =>
                        ~ENABLED (Guard_check(t) /\ ppanic'[t] # ppanic[t]))
    /\ [](\A t \in FlagThreads :
             (holder = t /\ gFailing) => flag_failing(t))

\* A thread that panicked under its Guard has set the flag in done, and
\* the check of the next borrower has panicked.
C39_Witness ==
    \E t \in FlagThreads, u \in FlagThreads :
        /\ t # u
        /\ ppanic[t] = "user" /\ ppc[t] = "out"
        /\ flagFailed
        /\ ppanic[u] = "poisoned" /\ ppc[u] = "unwinding" /\ holder = u
====
